---- MODULE Spec2Model ----
(***************************************************************************)
(* Verification model of the ENEM aggregation and materialization engine:  *)
(* the gold builders (data/silver_to_gold.py), the DuckDB agent            *)
(* (infra/db_agent.py), the SQL backend workflow                           *)
(* (orchestrator/workflows/sql_backend_workflow.py), the data quality gate *)
(* (infra/data_quality.py), the API lifespan (api/main.py) and the         *)
(* streaming cleaning / class pipelines.                                   *)
(***************************************************************************)
EXTENDS Integers, Sequences, FiniteSets, TLC

(***************************************************************************)
(* Bounds                                                                  *)
(***************************************************************************)
NumYears == 2
MaxRuns == 2

Years == 1..NumYears
YearSets == (SUBSET Years) \ {{}}
RunIds == 1..MaxRuns
Writers == {"w1", "w2"}
NoWriter == "none"

VARIABLES
    cleaned,      \* years whose cleaned parquet exists under gold/cleaned
    gaps,         \* years whose cleaned parquet lacks a score column
    gold,         \* gold parquet artifacts on disk, by file name
    dbExists,     \* enem.duckdb exists on disk
    views,        \* views registered inside the database file
    tables,       \* physical tables inside the database file
    lockHolder,   \* process holding the DuckDB file lock in write mode
    pc,           \* position of each process in the workflow
    call,         \* arguments and locals of the workflow call of each process
    runs,         \* per workflow run: status, gate outcome, steps taken
    nextRun,      \* number of workflow runs started so far
    serving,      \* API processes whose lifespan has yielded
    lastCall,     \* last standalone gold builder call and its outcome
    agg,          \* aggregation check: cleaned rows and aggregate outputs
    cl,           \* streaming cleaning run
    cs,           \* streaming class derivation run
    th,           \* in-process threads using DuckDBAgent
    sv,           \* streaming raw-to-silver run
    gt            \* one execution of the data quality gate

vars == <<cleaned, gaps, gold, dbExists, views, tables, lockHolder, pc,
          call, runs, nextRun, serving, lastCall, agg, cl, cs, th, sv,
          gt>>

wfVars == <<cleaned, gaps, gold, dbExists, views, tables, lockHolder, pc, call,
            runs, nextRun, serving>>

Idle == [on |-> FALSE]

(***************************************************************************)
(* Gold artifacts.  An artifact records the workflow run (or builder call) *)
(* that wrote it and the years whose rows it holds; run 0 is a file that   *)
(* predates every modelled run.                                            *)
(***************************************************************************)
GoldFiles == {"tb_notas", "tb_notas_stats", "tb_notas_geo", "tb_notas_geo_uf",
              "tb_notas_histogram", "tb_socio_economico", "tb_media_uf"}

\* The gold artifacts and the artifacts of other pipelines that the view
\* registrar also looks for.
AllFiles == GoldFiles \cup {"tb_media_municipal", "dim_municipio"}

NoFile == [exists |-> FALSE, run |-> 0, years |-> {}, oor |-> 0]
File(r, ys) == [exists |-> TRUE, run |-> r, years |-> ys, oor |-> 0]

\* Result of one builder call: the artifact left on disk, whether the call
\* raised, and the years for which a warning was logged.
Built(a, raised, warned) == [file |-> a, raised |-> raised, warned |-> warned]

Missing(ys) == ys \ cleaned
Present(ys) == ys \cap cleaned

\* build_tb_notas_parquet_streaming: raises FileNotFoundError on the first
\* missing year.  The writer is opened on the first batch, so the years
\* before the missing one have replaced the file by then; a raise before any
\* batch leaves the old file in place.
build_tb_notas_parquet_streaming(ys, r, old) ==
    IF Missing(ys) # {}
    THEN LET first == CHOOSE y \in Missing(ys) : \A z \in Missing(ys) : y <= z
             done == {y \in ys : y < first}
         IN Built(IF done = {} THEN old ELSE File(r, done), TRUE, {})
    ELSE Built(File(r, ys), FALSE, {})

\* Requested years whose cleaned file exists but lacks a score column
\* (DEFAULT_NOTA_COLUMNS), and the years a builder can aggregate.
Gap(ys) == ys \cap gaps
Usable(ys) == Present(ys) \ gaps

\* build_tb_notas_stats_from_cleaned: warns and skips missing years, always
\* writes the file (possibly with zero rows).  The year file is read with an
\* explicit column list outside any try block: a file without one of the
\* listed columns makes read_parquet raise, before the write at the end.
build_tb_notas_stats_from_cleaned(ys, r, old) ==
    IF Gap(ys) # {}
    THEN Built(old, TRUE, Missing(ys))
    ELSE Built(File(r, Present(ys)), FALSE, Missing(ys))

\* build_tb_notas_geo_from_cleaned: warns and skips, always writes.  The
\* DuckDB branch checks the file's schema first (_geo_requires_columns) and
\* answers a year without the required columns with a warning and an empty
\* frame.
build_tb_notas_geo_from_cleaned(ys, r, old) ==
    Built(File(r, Usable(ys)), FALSE, Missing(ys) \cup Gap(ys))

\* build_tb_notas_geo_uf_from_cleaned: warns and skips; returns before
\* writing when no year produced a frame.  _build_geo_uf_duckdb answers a
\* year without the required columns with a warning and an empty frame.
build_tb_notas_geo_uf_from_cleaned(ys, r, old) ==
    Built(IF Present(ys) = {} THEN old ELSE File(r, Usable(ys)),
          FALSE, Missing(ys) \cup Gap(ys))

\* build_tb_notas_histogram_from_cleaned: warns and skips missing years,
\* returns before writing when no frames; the read with the score columns
\* listed is outside any try block.
build_tb_notas_histogram_from_cleaned(ys, r, old) ==
    IF Gap(ys) # {}
    THEN Built(old, TRUE, Missing(ys))
    ELSE Built(IF Present(ys) = {} THEN old ELSE File(r, Present(ys)),
               FALSE, Missing(ys))

\* build_tb_socio_economico_from_cleaned: skips a missing year with a bare
\* `continue` (no log call); a failed read of the listed columns is caught,
\* logged as a warning and the year skipped; returns before writing when no
\* frames.
build_tb_socio_economico_from_cleaned(ys, r, old) ==
    Built(IF Usable(ys) = {} THEN old ELSE File(r, Usable(ys)),
          FALSE, Gap(ys))

\* build_tb_media_uf_from_cleaned: warns and skips; returns an empty frame
\* without writing when no frames; the read with the score columns listed
\* is outside any try block.
build_tb_media_uf_from_cleaned(ys, r, old) ==
    IF Gap(ys) # {}
    THEN Built(old, TRUE, Missing(ys))
    ELSE Built(IF Present(ys) = {} THEN old ELSE File(r, Present(ys)),
               FALSE, Missing(ys))

Builder(b, ys, r, old) ==
    CASE b = "tb_notas" -> build_tb_notas_parquet_streaming(ys, r, old)
      [] b = "tb_notas_stats" -> build_tb_notas_stats_from_cleaned(ys, r, old)
      [] b = "tb_notas_geo" -> build_tb_notas_geo_from_cleaned(ys, r, old)
      [] b = "tb_notas_geo_uf" -> build_tb_notas_geo_uf_from_cleaned(ys, r, old)
      [] b = "tb_notas_histogram" ->
             build_tb_notas_histogram_from_cleaned(ys, r, old)
      [] b = "tb_socio_economico" ->
             build_tb_socio_economico_from_cleaned(ys, r, old)
      [] b = "tb_media_uf" -> build_tb_media_uf_from_cleaned(ys, r, old)

(***************************************************************************)
(* DuckDB agent, write mode (one agent per workflow call, one OS process   *)
(* per caller).                                                            *)
(***************************************************************************)

\* duckdb.connect(path, read_only=False) as seen by process w: the engine
\* refuses a second process while another one holds the file, with an
\* IOException whose text names the lock ("Could not set lock on file");
\* any other I/O failure carries no such text.
duckdb_connect(w) ==
    LET ConnOk == [ok |-> TRUE, msgHasLock |-> FALSE]
        ConnLocked == [ok |-> FALSE, msgHasLock |-> TRUE]
        ConnIoError == [ok |-> FALSE, msgHasLock |-> FALSE]
    IN IF lockHolder \notin {NoWriter, w} THEN {ConnLocked}
       ELSE {ConnOk, ConnIoError}

get_conn_generic(outcome) ==
    IF outcome.ok THEN "ok" ELSE "IOException"

\* DuckDBAgent._get_conn, write branch: translates a lock IOException into
\* DuckDBLockError and re-raises every other IOException.
get_conn(outcome) ==
    IF outcome.ok THEN "ok"
    ELSE IF outcome.msgHasLock THEN "DuckDBLockError"
    ELSE "IOException"

\* Views of DuckDBAgent.register_parquet_views, in dictionary order, each
\* with the file (or file pattern) it reads.
ViewOrder == <<"silver_microdados", "gold_cleaned", "gold_classes",
               "gold_tb_notas", "gold_tb_notas_stats", "gold_tb_notas_geo",
               "gold_tb_notas_geo_uf", "gold_tb_notas_histogram",
               "gold_tb_socio_economico", "gold_tb_media_uf",
               "gold_tb_media_municipal", "dim_municipio">>

ViewNames == {ViewOrder[i] : i \in DOMAIN ViewOrder}

LayerViews == {"silver_microdados", "gold_cleaned", "gold_classes"}

ViewFile(v) ==
    CASE v = "gold_tb_notas" -> "tb_notas"
      [] v = "gold_tb_notas_stats" -> "tb_notas_stats"
      [] v = "gold_tb_notas_geo" -> "tb_notas_geo"
      [] v = "gold_tb_notas_geo_uf" -> "tb_notas_geo_uf"
      [] v = "gold_tb_notas_histogram" -> "tb_notas_histogram"
      [] v = "gold_tb_socio_economico" -> "tb_socio_economico"
      [] v = "gold_tb_media_uf" -> "tb_media_uf"
      [] v = "gold_tb_media_municipal" -> "tb_media_municipal"
      [] v = "dim_municipio" -> "dim_municipio"

\* The silver, cleaned and classes layers are written together, year by
\* year, by the cleaning/class workflow: their wildcard patterns match iff
\* some year has been processed.
HasMatches(v, g) ==
    IF v \in LayerViews THEN cleaned # {} ELSE g[ViewFile(v)].exists

\* Index of the first required view without a file, 0 when there is none.
FirstMissingRequired(g) ==
    LET bad == {i \in DOMAIN ViewOrder :
                   /\ ~HasMatches(ViewOrder[i], g)
                   /\ ViewOrder[i] \notin
                         {"gold_tb_socio_economico", "gold_tb_media_uf",
                          "gold_tb_media_municipal", "dim_municipio"}}
    IN IF bad = {} THEN 0 ELSE CHOOSE i \in bad : \A j \in bad : i <= j

\* DuckDBAgent.register_parquet_views: CREATE OR REPLACE VIEW for every
\* view with a file, in order, up to the first required view without one
\* (FileNotFoundError).
register_parquet_views(vw, g) ==
    LET k == FirstMissingRequired(g)
        reg == {ViewOrder[i] : i \in {j \in DOMAIN ViewOrder :
                   /\ (k = 0 \/ j < k)
                   /\ HasMatches(ViewOrder[j], g)}}
    IN [views |-> [v \in ViewNames |-> vw[v] \/ v \in reg],
        raised |-> k # 0]

(***************************************************************************)
(* Materialized tables and the data quality gate.                          *)
(***************************************************************************)
TableNames == AllFiles

NoTable == [exists |-> FALSE, run |-> 0, src |-> 0, years |-> {}, oor |-> 0]

\* materialize_dashboard_tables.sql: CREATE OR REPLACE TABLE <t> AS SELECT *
\* FROM <view of t>, for every registered view over a gold artifact; run r
\* executes it.  A view reads its parquet file at execution time.
materialize_dashboard_tables(tb, vw, g, r) ==
    [t \in TableNames |->
        IF \E v \in ViewNames \ LayerViews : ViewFile(v) = t /\ vw[v]
        THEN [exists |-> TRUE, run |-> r, src |-> g[t].run,
              years |-> g[t].years, oor |-> g[t].oor]
        ELSE tb[t]]

DataCheckResult(name, passed, severity) ==
    [name |-> name, passed |-> passed, severity |-> severity]

check_row_count_positive(tb, t, min_rows) ==
    DataCheckResult(<<t, "row_count">>, Cardinality(tb[t].years) >= min_rows, "error")

check_notas_range(tb, t) ==
    DataCheckResult(<<t, "notas_in_range">>, tb[t].oor = 0, "error")

\* run_dashboard_data_checks: three row-count checks, then the two range
\* checks, in this order.
run_dashboard_data_checks(tb) ==
    << check_row_count_positive(tb, "tb_notas", 1),
       check_row_count_positive(tb, "tb_notas_stats", 1),
       check_row_count_positive(tb, "tb_notas_geo", 1),
       check_notas_range(tb, "tb_notas_stats"),
       check_notas_range(tb, "tb_notas_geo") >>

failing_warning(checks) ==
    {i \in DOMAIN checks : ~checks[i].passed /\ checks[i].severity = "warning"}

failing_first(checks) ==
    {i \in DOMAIN checks : i = 1 /\ ~checks[i].passed
                              /\ checks[i].severity = "error"}

\* assert_dashboard_data_checks: the failing checks of severity "error";
\* the caller raises RuntimeError iff the set is not empty.
failing(checks) ==
    {i \in DOMAIN checks : ~checks[i].passed /\ checks[i].severity = "error"}

(***************************************************************************)
(* run_sql_backend_workflow, one call per process at a time.               *)
(***************************************************************************)
NoCall == [run |-> 0, years |-> {}, materialize |-> FALSE, caller |-> "none",
           err |-> "none", steps |-> <<>>, checks |-> <<>>]

NoRun == [status |-> "none", gate |-> "none"]

Step(c, w, name) == [c EXCEPT ![w].steps = Append(@, name)]

Finish(rs, r, status) == [rs EXCEPT ![r].status = status]

\* Entry of run_sql_backend_workflow: target years, DuckDBAgent(read_only=
\* False).  caller is "cli" (python -m enem_project.cli --sql-backend or
\* --dashboard) or "lifespan" (API startup).
StartWorkflow(w, ys, mat, caller) ==
    /\ pc[w] = "idle"
    /\ nextRun < MaxRuns
    /\ nextRun' = nextRun + 1
    /\ call' = [call EXCEPT ![w] = [run |-> nextRun + 1, years |-> ys,
                                    materialize |-> mat, caller |-> caller,
                                    err |-> "none", steps |-> <<>>,
                                    checks |-> <<>>]]
    /\ runs' = [runs EXCEPT ![nextRun + 1] =
                   [status |-> "running", gate |-> "none"]]
    /\ pc' = [pc EXCEPT ![w] = "get_connection"]
    /\ UNCHANGED <<cleaned, gaps, gold, dbExists, views, tables, lockHolder, serving>>

\* CLI entry: --sql-backend / --dashboard always request materialization;
\* the function itself also accepts materialize_dashboard_tables=False.
CliRun(w) ==
    \E ys \in YearSets, mat \in BOOLEAN : StartWorkflow(w, ys, mat, "cli")

\* agent.get_connection(): fail fast when the file is locked; on success
\* the connection (and with it the file lock) is kept for the whole call.
GetConnection(w) ==
    /\ pc[w] = "get_connection"
    /\ \E outcome \in duckdb_connect(w) :
         LET res == get_conn(outcome) IN
         IF res = "ok"
         THEN /\ lockHolder' = w
              /\ dbExists' = TRUE
              /\ pc' = [pc EXCEPT ![w] = "build_tb_notas_stats"]
              /\ call' = Step(call, w, "get_connection")
              /\ runs' = runs
         ELSE /\ pc' = [pc EXCEPT ![w] = "raised"]
              /\ call' = [Step(call, w, "get_connection") EXCEPT ![w].err = res]
              /\ runs' = Finish(runs, call[w].run, "raised")
              /\ UNCHANGED <<lockHolder, dbExists>>
    /\ UNCHANGED <<cleaned, gaps, gold, views, tables, nextRun, serving>>

BuildOrder == <<"tb_notas_stats", "tb_notas_geo", "tb_notas_geo_uf",
                "tb_notas_histogram", "tb_socio_economico">>

BuildPc(i) == IF i <= Len(BuildOrder) THEN "build_" \o BuildOrder[i]
              ELSE "register_parquet_views"

\* Step 1 of the workflow: the five gold builders, in order.  They run
\* after agent.get_connection() and before the try/finally that closes the
\* agent: an exception of a builder leaves the function at once, with the
\* later builders not called and the connection not closed.
BuildGold(w) ==
    \E i \in DOMAIN BuildOrder :
       LET res == Builder(BuildOrder[i], call[w].years, call[w].run,
                          gold[BuildOrder[i]])
       IN /\ pc[w] = BuildPc(i)
          /\ gold' = [gold EXCEPT ![BuildOrder[i]] = res.file]
          /\ IF res.raised
             THEN /\ pc' = [pc EXCEPT ![w] = "raised"]
                  /\ call' = [Step(call, w, BuildPc(i)) EXCEPT
                                 ![w].err = "ArrowInvalid"]
                  /\ runs' = Finish(runs, call[w].run, "raised")
             ELSE /\ pc' = [pc EXCEPT ![w] = BuildPc(i + 1)]
                  /\ call' = Step(call, w, BuildPc(i))
                  /\ runs' = runs
          /\ UNCHANGED <<cleaned, gaps, dbExists, views, tables, lockHolder,
                         nextRun, serving>>

\* agent.register_parquet_views() inside try/finally: on FileNotFoundError
\* the finally clause closes the agent; with materialization not requested
\* the call logs, closes and returns.
RegisterViews(w) ==
    /\ pc[w] = "register_parquet_views"
    /\ LET res == register_parquet_views(views, gold)
           r == call[w].run
       IN /\ views' = res.views
          /\ IF res.raised
             THEN /\ pc' = [pc EXCEPT ![w] = "raised"]
                  /\ call' = [Step(call, w, "register_parquet_views") EXCEPT
                                 ![w].err = "FileNotFoundError"]
                  /\ runs' = Finish(runs, r, "raised")
                  /\ lockHolder' = NoWriter
             ELSE IF call[w].materialize
             THEN /\ pc' = [pc EXCEPT ![w] = "execute_script"]
                  /\ call' = Step(call, w, "register_parquet_views")
                  /\ UNCHANGED <<runs, lockHolder>>
             ELSE /\ pc' = [pc EXCEPT ![w] = "returned"]
                  /\ call' = Step(call, w, "register_parquet_views")
                  /\ runs' = Finish(runs, r, "returned")
                  /\ lockHolder' = NoWriter
    /\ UNCHANGED <<cleaned, gaps, gold, dbExists, tables, nextRun, serving>>

\* agent.execute_script(sql_script)
ExecuteScript(w) ==
    /\ pc[w] = "execute_script"
    /\ tables' = materialize_dashboard_tables(tables, views, gold, call[w].run)
    /\ pc' = [pc EXCEPT ![w] = "assert_dashboard_data_checks"]
    /\ call' = Step(call, w, "execute_script")
    /\ UNCHANGED <<cleaned, gaps, gold, dbExists, views, lockHolder, runs, nextRun,
                   serving>>

\* assert_dashboard_data_checks(agent._get_conn()), then finally:
\* agent.close(), then return db_path or propagate RuntimeError.
QualityGate(w) ==
    /\ pc[w] = "assert_dashboard_data_checks"
    /\ LET checks == run_dashboard_data_checks(tables)
           bad == failing(checks)
           r == call[w].run
           rs == [runs EXCEPT
                     ![r].gate = IF \A i \in DOMAIN checks :
                                       checks[i].severity = "error"
                                       => checks[i].passed
                                 THEN "passed"
                                 ELSE "failed"]
           cc == [Step(call, w, "assert_dashboard_data_checks") EXCEPT
                     ![w].checks = checks]
       IN IF bad # {}
          THEN /\ pc' = [pc EXCEPT ![w] = "raised"]
               /\ call' = [cc EXCEPT ![w].err = "RuntimeError"]
               /\ runs' = Finish(rs, r, "raised")
          ELSE /\ pc' = [pc EXCEPT ![w] = "returned"]
               /\ runs' = Finish(rs, r, "returned")
               /\ call' = cc
    /\ lockHolder' = NoWriter
    /\ UNCHANGED <<cleaned, gaps, gold, dbExists, views, tables, nextRun, serving>>

\* The CLI process ends after the call (normally or with the exception);
\* a connection the call left open ends with the process.
CliExit(w) ==
    /\ pc[w] \in {"returned", "raised"}
    /\ call[w].caller = "cli"
    /\ pc' = [pc EXCEPT ![w] = "idle"]
    /\ call' = [call EXCEPT ![w] = NoCall]
    /\ lockHolder' = IF lockHolder = w THEN NoWriter ELSE lockHolder
    /\ UNCHANGED <<cleaned, gaps, gold, dbExists, views, tables, runs,
                   nextRun, serving>>

(***************************************************************************)
(* API lifespan (startup of the serving process).                          *)
(***************************************************************************)

\* Views of the legacy infra.db.register_parquet_views, in statement order;
\* the last two are guarded by path.exists().
LegacyViewOrder == <<"silver_microdados", "gold_cleaned", "gold_classes",
                     "gold_tb_notas", "gold_tb_notas_stats",
                     "gold_tb_notas_geo", "gold_tb_notas_geo_uf",
                     "gold_tb_notas_histogram", "gold_tb_socio_economico",
                     "dim_municipio", "gold_tb_media_uf">>

\* infra.db.register_parquet_views(conn): each CREATE OR REPLACE VIEW binds
\* read_parquet at once, so the first view without a file that is not
\* guarded by an exists() test aborts the function; the views before it stay
\* registered.
legacy_register_parquet_views(vw, g) ==
    LET LegacyGuarded == {"dim_municipio", "gold_tb_media_uf"}
        bad == {i \in DOMAIN LegacyViewOrder :
                   /\ ~HasMatches(LegacyViewOrder[i], g)
                   /\ LegacyViewOrder[i] \notin LegacyGuarded}
        k == IF bad = {} THEN 0 ELSE CHOOSE i \in bad : \A j \in bad : i <= j
        reg == {LegacyViewOrder[i] : i \in {j \in DOMAIN LegacyViewOrder :
                   /\ (k = 0 \/ j < k)
                   /\ HasMatches(LegacyViewOrder[j], g)}}
    IN [v \in ViewNames |-> vw[v] \/ v \in reg]

\* should_materialize of lifespan; force is ENEM_FORCE_MATERIALIZE.  The
\* read-only probe connection fails while another process holds the file in
\* write mode, which forces materialization as well.
should_materialize(force) ==
    \/ ~dbExists
    \/ force
    \/ lockHolder # NoWriter
    \/ ~tables["tb_notas_stats"].exists

\* lifespan, materializing branch: calls the workflow for settings.YEARS
\* with materialize_dashboard_tables=True inside try/except Exception.
LifespanMaterialize(w) ==
    /\ \E force \in BOOLEAN : should_materialize(force)
    /\ StartWorkflow(w, Years, TRUE, "lifespan")

\* lifespan, other branch: get_duckdb_conn(read_only=False), legacy view
\* registration, close; any exception is logged as a warning; then yield.
LifespanRegisterOnly(w) ==
    /\ pc[w] = "idle"
    /\ ~should_materialize(FALSE)
    /\ views' = legacy_register_parquet_views(views, gold)
    /\ pc' = [pc EXCEPT ![w] = "serving"]
    /\ serving' = serving \cup {w}
    /\ call' = [call EXCEPT ![w] = [NoCall EXCEPT !.caller = "lifespan"]]
    /\ UNCHANGED <<cleaned, gaps, gold, dbExists, tables, lockHolder, runs, nextRun>>

\* lifespan after the workflow call: the except clause swallows every
\* exception ("We don't crash the app"), then yield: the API serves.  A
\* connection the call left open is closed when the unreachable agent is
\* collected, which may or may not have happened by now.
LifespanYield(w) ==
    /\ pc[w] \in {"returned", "raised"}
    /\ call[w].caller = "lifespan"
    /\ pc' = [pc EXCEPT ![w] = "serving"]
    /\ serving' = serving \cup {w}
    /\ lockHolder' \in {lockHolder,
                        IF lockHolder = w THEN NoWriter ELSE lockHolder}
    /\ UNCHANGED <<cleaned, gaps, gold, dbExists, views, tables, call,
                   runs, nextRun>>

\* The API process stops; its open connections end with it.
ApiShutdown(w) ==
    /\ pc[w] = "serving"
    /\ pc' = [pc EXCEPT ![w] = "idle"]
    /\ serving' = serving \ {w}
    /\ call' = [call EXCEPT ![w] = NoCall]
    /\ lockHolder' = IF lockHolder = w THEN NoWriter ELSE lockHolder
    /\ UNCHANGED <<cleaned, gaps, gold, dbExists, views, tables, runs,
                   nextRun>>

(***************************************************************************)
(* Specification of the materialization workflow.                          *)
(***************************************************************************)
Init ==
    /\ cleaned \in SUBSET Years
    /\ gaps \in SUBSET cleaned
    /\ \E a \in {NoFile} \cup {File(0, ys) : ys \in SUBSET cleaned} :
          gold = [f \in AllFiles |-> IF f = "tb_notas" THEN a ELSE NoFile]
    /\ dbExists = FALSE
    /\ views = [v \in ViewNames |-> FALSE]
    /\ tables = [t \in TableNames |-> NoTable]
    /\ lockHolder = NoWriter
    /\ pc = [w \in Writers |-> "idle"]
    /\ call = [w \in Writers |-> NoCall]
    /\ runs = [r \in RunIds |-> NoRun]
    /\ nextRun = 0
    /\ serving = {}
    /\ lastCall = Idle
    /\ agg = Idle
    /\ cl = Idle
    /\ cs = Idle
    /\ th = Idle
    /\ sv = Idle
    /\ gt = Idle

WorkflowStep(w) ==
    \/ CliRun(w)
    \/ GetConnection(w)
    \/ BuildGold(w)
    \/ RegisterViews(w)
    \/ ExecuteScript(w)
    \/ QualityGate(w)
    \/ CliExit(w)
    \/ LifespanMaterialize(w)
    \/ LifespanRegisterOnly(w)
    \/ LifespanYield(w)
    \/ ApiShutdown(w)

Next ==
    /\ \E w \in Writers : WorkflowStep(w)
    /\ UNCHANGED <<lastCall, agg, cl, cs, th, sv, gt>>

Spec == Init /\ [][Next]_vars

(***************************************************************************)
(* Properties of the materialization workflow.                             *)
(***************************************************************************)
\* C4: a writer that attempts to connect while another process holds the
\* database file in write mode is not blocked (its connect step is enabled),
\* and the step ends its call with DuckDBLockError, never with another error
\* and never by going on, leaving files, views and tables untouched.
C4_SecondWriterFailsFast ==
    [][\A w \in Writers :
         (pc[w] = "get_connection" /\ lockHolder \notin {NoWriter, w})
         => /\ ENABLED GetConnection(w)
            /\ pc'[w] # pc[w]
               => /\ pc'[w] = "raised"
                  /\ call'[w].err = "DuckDBLockError"
                  /\ runs'[call[w].run].status = "raised"
                  /\ lockHolder' = lockHolder
                  /\ <<gold, views, tables>>' = <<gold, views, tables>>]_vars

C4_Witness ==
    \E w, o \in Writers :
       /\ w # o
       /\ lockHolder = o
       /\ pc[o] \in {"build_tb_notas_stats", "build_tb_notas_geo",
                    "build_tb_notas_geo_uf", "build_tb_notas_histogram",
                    "build_tb_socio_economico", "register_parquet_views",
                    "execute_script", "assert_dashboard_data_checks"}
       /\ pc[w] = "raised"
       /\ call[w].err = "DuckDBLockError"

FullOrder == <<"get_connection", "build_tb_notas_stats", "build_tb_notas_geo",
               "build_tb_notas_geo_uf", "build_tb_notas_histogram",
               "build_tb_socio_economico", "register_parquet_views",
               "execute_script", "assert_dashboard_data_checks">>

IsPrefix(s, t) ==
    /\ Len(s) <= Len(t)
    /\ \A i \in DOMAIN s : s[i] = t[i]

\* C5: in a call with full materialization requested the steps taken are a
\* prefix of connect, build, register views, execute script, quality gate;
\* the call has returned normally only after all of them and with every
\* error-severity check passed; once a failed error-severity check has been
\* recorded the call has raised.
C5_OrderedAndGated ==
    \A w \in Writers :
       (call[w].run # 0 /\ call[w].materialize)
       => LET r == call[w].run IN
          /\ IsPrefix(call[w].steps, FullOrder)
          /\ runs[r].status = "returned"
             => /\ call[w].steps = FullOrder
                /\ Len(call[w].checks) = 5
                /\ ~(\E i \in DOMAIN call[w].checks : call[w].checks[i].severity = "error" /\ ~call[w].checks[i].passed)
          /\ (\E i \in DOMAIN call[w].checks : call[w].checks[i].severity = "error" /\ ~call[w].checks[i].passed)
             => /\ runs[r].status = "raised"
                /\ call[w].err = "RuntimeError"

C5_Witness ==
    \E w \in Writers :
       /\ call[w].materialize
       /\ pc[w] = "returned"
       /\ call[w].steps = FullOrder
       /\ Len(call[w].checks) = 5

C9_LatestRunSupersedes ==
    \A w \in Writers :
       (pc[w] = "returned" /\ call[w].materialize /\ call[w].run = nextRun)
       => \A f \in {"tb_notas"} \cup {BuildOrder[i] : i \in DOMAIN BuildOrder} :
             tables[f].exists
             => /\ tables[f].run = call[w].run
                /\ tables[f].src = call[w].run
                /\ gold[f].run = call[w].run

\* C27 as stated: when a call of run_sql_backend_workflow has returned or
\* raised, on whatever path, its write connection is closed: the process no
\* longer holds the write lock on the database file.
C27_ConnectionClosedOnEveryExit ==
    \A w \in Writers : pc[w] \in {"returned", "raised"} => lockHolder # w

(***************************************************************************)
(* Specification of the gold builders called on their own (cli.py calls    *)
(* build_tb_notas_parquet_streaming directly; the workflow and the tests   *)
(* call the others): any builder, any set of requested years, against any  *)
(* set of cleaned year files.                                              *)
(***************************************************************************)
NoSubModels ==
    /\ agg = Idle
    /\ cl = Idle
    /\ cs = Idle
    /\ th = Idle
    /\ sv = Idle
    /\ gt = Idle

NoWorkflow ==
    /\ dbExists = FALSE
    /\ views = [v \in ViewNames |-> FALSE]
    /\ tables = [t \in TableNames |-> NoTable]
    /\ lockHolder = NoWriter
    /\ pc = [w \in Writers |-> "idle"]
    /\ call = [w \in Writers |-> NoCall]
    /\ runs = [r \in RunIds |-> NoRun]
    /\ serving = {}

InitBuilders ==
    /\ cleaned \in SUBSET Years
    /\ gaps \in SUBSET cleaned
    /\ gold = [f \in AllFiles |-> NoFile]
    /\ nextRun = 0
    /\ lastCall = Idle
    /\ NoWorkflow
    /\ NoSubModels

\* One call builder(years) from a script or a test.
CallBuilder(b, ys) ==
    /\ nextRun < MaxRuns
    /\ LET r == nextRun + 1
           res == Builder(b, ys, r, gold[b])
       IN /\ nextRun' = r
          /\ gold' = [gold EXCEPT ![b] = res.file]
          /\ lastCall' = [on |-> TRUE, builder |-> b, years |-> ys, run |-> r,
                          raised |-> res.raised, warned |-> res.warned]
    /\ UNCHANGED <<cleaned, gaps, dbExists, views, tables, lockHolder, pc, call,
                   runs, serving, agg, cl, cs, th, sv, gt>>

NextBuilders == \E b \in GoldFiles, ys \in YearSets : CallBuilder(b, ys)

SpecBuilders == InitBuilders /\ [][NextBuilders]_vars

\* C10 as stated: a builder call that requests a year without a cleaned file
\* does not raise, logs a warning for every such year, and the artifact it
\* leaves holds no rows of a missing year.
C10_MissingYearSkippedWithWarning ==
    (lastCall.on /\ Missing(lastCall.years) # {})
    => /\ ~lastCall.raised
       /\ Missing(lastCall.years) \subseteq lastCall.warned
       /\ gold[lastCall.builder].years \cap Missing(lastCall.years) = {}

\* C11 as stated: a builder call over a year whose cleaned file lacks a
\* required score column does not raise, logs a warning for that year, and
\* leaves that year out of an artifact it writes, the other requested years
\* being aggregated.
C11_MissingColumnSkippedWithWarning ==
    (lastCall.on /\ lastCall.builder # "tb_notas" /\ Gap(lastCall.years) # {})
    => LET out == gold[lastCall.builder] IN
       /\ ~lastCall.raised
       /\ Gap(lastCall.years) \subseteq lastCall.warned
       /\ out.years \cap Gap(lastCall.years) = {}
       /\ Usable(lastCall.years) # {}
          => /\ out.exists
             /\ out.run = lastCall.run
             /\ Usable(lastCall.years) \subseteq out.years

(***************************************************************************)
(* Specification of the score aggregates of one cleaned year file          *)
(* (data/silver_to_gold.py).  A cleaned row is projected on one subject:   *)
(* its geographic key, the subject's score and the value of the presence   *)
(* column of that subject.  ID_INSCRICAO is the row's position (cleaned    *)
(* files hold one row per identifier), except for at most one row whose    *)
(* identifier is null: deduplication keeps the first row without an        *)
(* identifier.  A mean is kept as the pair of sum and count it is the      *)
(* quotient of.                                                            *)
(***************************************************************************)
MaxCand == 2

NullScore == -1
NullKey == "NULL"

TPColumns == {"TP_PRESENCA_MT", "TP_PRESENCA_LC", "TP_STATUS_REDACAO"}


\* series.between(0, 1000) / BETWEEN 0 AND 1000: false for a null.
between_0_1000(x) == x # NullScore /\ x >= 0 /\ x <= 1000

\* presence_map of _build_geo_duckdb.
presence_map(col) ==
    IF col = "NOTA_REDACAO" THEN "TP_PRESENCA_LC" ELSE "TP_PRESENCA_MT"

RECURSIVE SumNota(_, _)
SumNota(rows, S) ==
    IF S = {} THEN 0
    ELSE LET i == CHOOSE j \in S : TRUE
         IN rows[i].nota + SumNota(rows, S \ {i})

\* Positions of the rows that count as identifiers; null_id is the position
\* of the row without one, 0 when every row has one.  COUNT(DISTINCT
\* ID_INSCRICAO) skips the null; the pandas branches call nunique() after
\* _clean_columns has turned the column into str, the null included.
WithId(engine, rows, null_id) ==
    IF engine = "duckdb" THEN DOMAIN rows \ {null_id} ELSE DOMAIN rows

\* One output row: group, INSCRITOS, {col}_count, {col}_mean.
AggRow(rows, g, members, ids, valid, empty_mean_is_null) ==
    [group |-> g,
     inscritos |-> Cardinality(members \cap ids),
     count |-> Cardinality(valid),
     sum |-> SumNota(rows, valid),
     mean_null |-> empty_mean_is_null /\ valid = {}]

\* _aggregate_stats: one record per ANO; the mask is the range alone; an
\* empty series gives count 0 and mean 0.0.
aggregate_stats(rows, null_id) ==
    IF DOMAIN rows = {} THEN {}
    ELSE {AggRow(rows, "ANO", DOMAIN rows, WithId("pandas", rows, null_id),
                 {i \in DOMAIN rows : between_0_1000(rows[i].nota)}, FALSE)}

\* _build_geo_uf_duckdb and the pandas branch of
\* build_tb_notas_geo_uf_from_cleaned: group by UF, null UF dropped, the
\* mask is the range alone in both.
build_geo_uf(engine, rows, null_id) ==
    LET kept == {i \in DOMAIN rows : rows[i].key.uf # NullKey}
        ufs == {rows[i].key.uf : i \in kept}
    IN {AggRow(rows, u, {i \in kept : rows[i].key.uf = u},
               WithId(engine, rows, null_id),
               {i \in kept : rows[i].key.uf = u
                             /\ between_0_1000(rows[i].nota)}, TRUE)
        : u \in ufs}

\* Row mask of _build_geo_duckdb: range, and presence = 1 when the presence
\* column is in the file.
valid_geo_duckdb(row, col, cols) ==
    /\ between_0_1000(row.nota)
    /\ presence_map(col) \in cols => row.pres = 1

\* Columns of the frame returned by _clean_columns(df, year, extra_columns=
\* GEO_COLUMNS): ANO, ID_INSCRICAO, the demographic, geographic and score
\* columns; the TP_ columns that were read are not among them.
clean_columns(cols) == cols \ TPColumns

\* Row mask of the pandas branch of build_tb_notas_geo_from_cleaned, applied
\* to the frame that _clean_columns returned.
valid_geo_pandas(row, col, cols) ==
    LET df_columns == clean_columns(cols)
    IN IF col # "NOTA_REDACAO" /\ presence_map(col) \in df_columns
       THEN between_0_1000(row.nota) /\ row.pres = 1
       ELSE IF col = "NOTA_REDACAO" /\ "TP_STATUS_REDACAO" \in df_columns
       THEN /\ between_0_1000(row.nota)
            /\ "TP_PRESENCA_LC" \in df_columns => row.pres = 1
       ELSE between_0_1000(row.nota)

valid_geo(engine, row, col, cols) ==
    IF engine = "duckdb" THEN valid_geo_duckdb(row, col, cols)
    ELSE valid_geo_pandas(row, col, cols)

\* build_tb_notas_geo_from_cleaned for one year: group by UF and
\* municipality, rows with a null key column dropped.
build_geo(engine, rows, null_id, col, cols) ==
    LET kept == {i \in DOMAIN rows :
                   rows[i].key.uf # NullKey /\ rows[i].key.mun # NullKey}
        keys == {rows[i].key : i \in kept}
    IN {AggRow(rows, k, {i \in kept : rows[i].key = k},
               WithId(engine, rows, null_id),
               {i \in kept : rows[i].key = k
                             /\ valid_geo(engine, rows[i], col, cols)}, TRUE)
        : k \in keys}

Engines == {"duckdb", "pandas"}

InitAgg ==
    /\ LET GeoKeys == {[uf |-> NullKey, mun |-> NullKey],
                       [uf |-> "SP", mun |-> NullKey],
                       [uf |-> "SP", mun |-> "M1"]}
           CleanedRows == [key : GeoKeys, nota : {NullScore, 400, 800, 1200},
                           pres : {0, 1}]
           CleanedFrames == UNION {[1..n -> CleanedRows] : n \in 0..MaxCand}
       IN \E rows \in CleanedFrames, col \in {"NOTA_MATEMATICA", "NOTA_REDACAO"},
             cols \in SUBSET TPColumns :
       \E null_id \in 0..Len(rows) :
          agg = [on |-> TRUE, rows |-> rows, null_id |-> null_id,
                 col |-> col, cols |-> cols,
                 table |-> "none", engine |-> "none", out |-> {}]
    /\ cleaned = {}
    /\ gaps = {}
    /\ gold = [f \in AllFiles |-> NoFile]
    /\ nextRun = 0
    /\ lastCall = Idle
    /\ NoWorkflow
    /\ cl = Idle
    /\ cs = Idle
    /\ th = Idle
    /\ sv = Idle
    /\ gt = Idle

BuildStats ==
    /\ agg' = [agg EXCEPT !.table = "tb_notas_stats", !.engine = "pandas",
                          !.out = aggregate_stats(agg.rows, agg.null_id)]
    /\ UNCHANGED <<wfVars, lastCall, cl, cs, th, sv, gt>>

BuildGeoUf(engine) ==
    /\ agg' = [agg EXCEPT !.table = "tb_notas_geo_uf", !.engine = engine,
                          !.out = build_geo_uf(engine, agg.rows,
                                               agg.null_id)]
    /\ UNCHANGED <<wfVars, lastCall, cl, cs, th, sv, gt>>

BuildGeo(engine) ==
    /\ agg' = [agg EXCEPT !.table = "tb_notas_geo", !.engine = engine,
                          !.out = build_geo(engine, agg.rows, agg.null_id,
                                            agg.col, agg.cols)]
    /\ UNCHANGED <<wfVars, lastCall, cl, cs, th, sv, gt>>

NextAgg ==
    \/ BuildStats
    \/ \E engine \in Engines : BuildGeoUf(engine)
    \/ \E engine \in Engines : BuildGeo(engine)

SpecAgg == InitAgg /\ [][NextAgg]_vars

\* Rows of a group that entered the subject with a score in [0, 1000] and
\* the presence flag of the subject set to present.
PresentValid(g) ==
    {i \in DOMAIN agg.rows :
       /\ CASE agg.table = "tb_notas_stats" -> TRUE
            [] agg.table = "tb_notas_geo_uf" -> agg.rows[i].key.uf = g
            [] OTHER -> agg.rows[i].key = g
       /\ between_0_1000(agg.rows[i].nota)
       /\ agg.rows[i].pres = 1}

\* C1 as stated: in tb_notas_stats, tb_notas_geo_uf and tb_notas_geo built
\* from a file that has the subject's presence column, a subject's count and
\* mean are taken over exactly the rows whose score is in [0, 1000] and whose
\* presence flag is 1.
C1_PresenceBeforeAverage ==
    (agg.on /\ agg.table # "none" /\ presence_map(agg.col) \in agg.cols)
    => \A o \in agg.out :
          /\ o.count = Cardinality(PresentValid(o.group))
          /\ o.sum = SumNota(agg.rows, PresentValid(o.group))

\* C17 as stated: in every row of tb_notas_geo and tb_notas_geo_uf, from
\* either implementation, the subject's count is at most INSCRITOS.
C17_CountAtMostInscritos ==
    (agg.on /\ agg.table \in {"tb_notas_geo", "tb_notas_geo_uf"})
    => \A o \in agg.out : o.count <= o.inscritos

\* C20 as stated: the municipality-level aggregate built by one
\* implementation from a cleaned file has the groups, INSCRITOS, counts and
\* means that the other implementation builds from the same file.
C20_GeoEnginesAgree ==
    (agg.on /\ agg.table = "tb_notas_geo")
    => \A other \in Engines \ {agg.engine} :
          agg.out = build_geo(other, agg.rows, agg.null_id, agg.col, agg.cols)

(***************************************************************************)
(* Specification of streaming cleaning (data/cleaning/streaming.py)        *)
(* against the one-pass pipeline (data/cleaning/pipeline.py).  A silver    *)
(* row carries the identifier, one range-checked column (NU_IDADE), one    *)
(* numeric column with a declared domain (TP_COR_RACA) and one text column *)
(* with a declared domain (RENDA_FAMILIAR).  A frame is its rows plus the  *)
(* dtype of TP_COR_RACA: numpy int64 (a frame built from plain integers,   *)
(* as in tests/test_cleaning_and_class.py) or the nullable Int64 that      *)
(* raw_to_silver.py produces.                                              *)
(***************************************************************************)
MaxRows == 3

NA == -1
SilverFrames ==
    LET SilverRows == [ID_INSCRICAO : {"1", "2"}, NU_IDADE : {17, 250},
                       TP_COR_RACA : {1, 9}, RENDA_FAMILIAR : {"A", "Z"}]
    IN UNION {[1..n -> SilverRows] : n \in 0..MaxRows}

\* dominio_valores of the metadata for the two domain columns.
DomainCorRaca == {1}
DomainRenda == {"A"}

Min(a, b) == IF a <= b THEN a ELSE b

\* _validate_numeric_ranges, row-wise mask (DEFAULT_NUMERIC_RULES: NU_IDADE
\* in [8, 120]).
validate_numeric_ranges(row) == row.NU_IDADE < 8 \/ row.NU_IDADE > 120

\* A deduplication that keeps every row.
Dedup_none(rows, seen, kept, dups) ==
    [kept |-> kept \o rows, dups |-> dups,
     seen |-> seen \cup {rows[i].ID_INSCRICAO : i \in DOMAIN rows}]

\* Deduplication of a frame of valid rows given the identifiers kept so far:
\* duplicated(keep="first") within the frame, or seen before.
RECURSIVE Dedup(_, _, _, _)
Dedup(rows, seen, kept, dups) ==
    IF rows = <<>> THEN [kept |-> kept, dups |-> dups, seen |-> seen]
    ELSE LET r == Head(rows)
         IN IF r.ID_INSCRICAO \in seen
            THEN Dedup(Tail(rows), seen, kept, Append(dups, r))
            ELSE Dedup(Tail(rows), seen \cup {r.ID_INSCRICAO},
                       Append(kept, r), dups)

\* _apply_domains: a column is rewritten only when the frame at hand has an
\* out-of-domain value in it.  The text column gets "UNKNOWN".  The numeric
\* column gets pd.NA, which a numpy int64 column cannot hold: the column of
\* that frame becomes float64; a nullable Int64 column keeps its dtype.
\* The reference metadata at hand: "declared" has a domain row for each of
\* the two columns; "empty" is a frame with the metadata columns and no row
\* for the year; "missing" is the frame without columns, pd.DataFrame(), that
\* stands in when load_metadata raised FileNotFoundError.
\* metadata.dropna(subset=["dominio_valores"]) raises KeyError on a frame
\* that has no such column; a frame with the column and no rows leaves the
\* data as it is.
apply_domains(rows, dtype, metadata) ==
    IF metadata = "missing"
    THEN [rows |-> rows, dtype |-> dtype, raised |-> "KeyError"]
    ELSE IF metadata = "empty"
    THEN [rows |-> rows, dtype |-> dtype, raised |-> "none"]
    ELSE
    [rows |-> [i \in DOMAIN rows |->
                 [rows[i] EXCEPT
                    !.TP_COR_RACA =
                        IF @ \in DomainCorRaca THEN @ ELSE NA,
                    !.RENDA_FAMILIAR =
                        IF @ \in DomainRenda THEN @ ELSE "UNKNOWN"]],
     dtype |-> IF /\ \E i \in DOMAIN rows :
                        rows[i].TP_COR_RACA \notin DomainCorRaca \cup {NA}
                  /\ dtype = "int64"
               THEN "float64"
               ELSE dtype,
     raised |-> "none"]

\* A cleaning that deduplicates the whole frame before range validation.
run_cleaning_pipeline_dedup_first(df, dtype, metadata) ==
    LET dd == Dedup(df, {}, <<>>, <<>>)
        invalid_rows == SelectSeq(dd.kept, validate_numeric_ranges)
        df_valid == SelectSeq(dd.kept, LAMBDA r : ~validate_numeric_ranges(r))
        corrected == apply_domains(df_valid, dtype, metadata)
    IN [cleaned_df |-> corrected.rows, dtype |-> corrected.dtype,
        invalid_rows |-> invalid_rows, duplicates |-> dd.dups,
        raised |-> corrected.raised]

\* run_cleaning_pipeline on the whole frame.
run_cleaning_pipeline(df, dtype, metadata) ==
    LET invalid_rows == SelectSeq(df, validate_numeric_ranges)
        df_valid == SelectSeq(df, LAMBDA r : ~validate_numeric_ranges(r))
        dd == Dedup(df_valid, {}, <<>>, <<>>)
        corrected == apply_domains(dd.kept, dtype, metadata)
    IN [cleaned_df |-> corrected.rows, dtype |-> corrected.dtype,
        invalid_rows |-> invalid_rows, duplicates |-> dd.dups,
        raised |-> corrected.raised]

NoWriterOpen == "none"

InitClean ==
    /\ \E silver \in SilverFrames, chunk_rows \in 1..MaxRows,
          dtype \in {"int64", "Int64"} :
          cl = [on |-> TRUE, silver |-> silver, dtype |-> dtype,
                chunk_rows |-> chunk_rows,
                pos |-> 0, seen_ids |-> {}, writer |-> NoWriterOpen,
                file |-> <<>>, total_rows |-> 0, invalid_parts |-> <<>>,
                duplicate_parts |-> <<>>, status |-> "running"]
    /\ cleaned = {}
    /\ gaps = {}
    /\ gold = [f \in AllFiles |-> NoFile]
    /\ nextRun = 0
    /\ lastCall = Idle
    /\ NoWorkflow
    /\ agg = Idle
    /\ cs = Idle
    /\ th = Idle
    /\ sv = Idle
    /\ gt = Idle

\* One iteration of the loop over pf.iter_batches(batch_size).
CleanBatch ==
    /\ cl.on
    /\ cl.status = "running"
    /\ cl.pos < Len(cl.silver)
    /\ LET last == Min(cl.pos + cl.chunk_rows, Len(cl.silver))
           df_chunk == SubSeq(cl.silver, cl.pos + 1, last)
           invalid_rows == SelectSeq(df_chunk, validate_numeric_ranges)
           valid_chunk ==
               SelectSeq(df_chunk, LAMBDA r : ~validate_numeric_ranges(r))
           dd == Dedup(valid_chunk, cl.seen_ids, <<>>, <<>>)
           corrected == apply_domains(dd.kept, cl.dtype, "declared")
           schema == IF cl.writer = NoWriterOpen THEN corrected.dtype
                     ELSE cl.writer
       IN cl' = [cl EXCEPT
                   !.pos = last,
                   !.seen_ids = dd.seen,
                   !.invalid_parts = @ \o invalid_rows,
                   !.duplicate_parts = @ \o dd.dups,
                   !.writer = schema,
                   \* write_table raises ValueError when the table's schema
                   \* is not the one the writer was opened with
                   !.status = IF corrected.dtype = schema THEN "running"
                              ELSE "raised",
                   !.file = IF corrected.dtype = schema
                            THEN @ \o corrected.rows ELSE @,
                   !.total_rows = IF corrected.dtype = schema
                                  THEN @ + Len(corrected.rows) ELSE @]
    /\ UNCHANGED <<wfVars, lastCall, agg, cs, th, sv, gt>>

\* After the loop: no batch at all leaves the writer unopened and an empty
\* frame built from the column names alone (no dtypes) is written; otherwise
\* the writer is closed.
CleanFinish ==
    /\ cl.on
    /\ cl.status = "running"
    /\ cl.pos = Len(cl.silver)
    /\ cl' = [cl EXCEPT
                !.writer = IF @ = NoWriterOpen THEN "object" ELSE @,
                !.status = "returned"]
    /\ UNCHANGED <<wfVars, lastCall, agg, cs, th, sv, gt>>

NextClean == CleanBatch \/ CleanFinish

SpecClean == InitClean /\ [][NextClean]_vars

\* C2 as stated: when stream_clean_to_parquet has ended, it has returned,
\* the cleaned file holds the rows, values and column type of the one-pass
\* cleaned frame, and row_count is the length of that frame.
C2_StreamingCleaningMatchesBatch ==
    (cl.on /\ cl.status # "running")
    => LET batch == run_cleaning_pipeline(cl.silver, cl.dtype, "declared") IN
       /\ cl.status = "returned"
       /\ cl.file = batch.cleaned_df
       /\ cl.writer = batch.dtype
       /\ cl.total_rows = Len(batch.cleaned_df)

\* C12 as stated: out-of-range values, duplicate identifiers and
\* out-of-domain values never make stream_clean_to_parquet raise: the run
\* returns, the cleaned artifact is written, every out-of-range row is in the
\* invalid quarantine, every repeated identifier in the duplicates
\* quarantine, and no out-of-domain value is left in the cleaned file.
C12_ViolationNeverFatal ==
    cl.on
    => /\ cl.status # "raised"
       /\ cl.status = "returned"
          => /\ cl.writer # NoWriterOpen
             /\ cl.invalid_parts = SelectSeq(cl.silver, validate_numeric_ranges)
             /\ Len(cl.file) + Len(cl.invalid_parts) + Len(cl.duplicate_parts)
                  = Len(cl.silver)
             /\ \A i \in DOMAIN cl.file :
                   /\ cl.file[i].TP_COR_RACA \in DomainCorRaca \cup {NA}
                   /\ cl.file[i].RENDA_FAMILIAR \in DomainRenda \cup {"UNKNOWN"}

\* The rows of the input read so far that passed range validation, and the
\* positions among them that are the first of their identifier.
RECURSIVE Pick(_, _, _)
Pick(rows, keep, i) ==
    IF i > Len(rows) THEN <<>>
    ELSE (IF i \in keep THEN <<rows[i]>> ELSE <<>>) \o Pick(rows, keep, i + 1)

Ids(rows) == [i \in DOMAIN rows |-> rows[i].ID_INSCRICAO]

\* C15: after any number of batches of streaming cleaning the cleaned output
\* has no identifier twice, its rows are the first occurrences, in input
\* order, among the rows read so far that passed range validation (all of
\* them while the run has not raised), and the duplicates quarantine holds
\* exactly the later occurrences, in input order.
C15_FirstOccurrenceKept ==
    cl.on
    => LET valid == SelectSeq(SubSeq(cl.silver, 1, cl.pos),
                              LAMBDA r : ~validate_numeric_ranges(r))
           first == {i \in DOMAIN valid :
                       \A j \in 1..(i - 1) :
                          valid[j].ID_INSCRICAO # valid[i].ID_INSCRICAO}
           kept == Pick(valid, first, 1)
           later == Pick(valid, DOMAIN valid \ first, 1)
       IN /\ \A i, j \in DOMAIN cl.file :
                cl.file[i].ID_INSCRICAO = cl.file[j].ID_INSCRICAO => i = j
          /\ IsPrefix(Ids(cl.file), Ids(kept))
          /\ cl.status # "raised" => Ids(cl.file) = Ids(kept)
          /\ cl.duplicate_parts = later

\* A run in batches of one row that has quarantined a repetition coming in a
\* later batch than the row kept, after a row of the same identifier was
\* rejected by range validation.
C15_Witness ==
    /\ cl.on
    /\ cl.status = "returned"
    /\ cl.chunk_rows = 1
    /\ Len(cl.silver) = 3
    /\ validate_numeric_ranges(cl.silver[1])
    /\ cl.silver[2].ID_INSCRICAO = cl.silver[1].ID_INSCRICAO
    /\ cl.silver[3].ID_INSCRICAO = cl.silver[1].ID_INSCRICAO
    /\ Len(cl.file) = 1
    /\ cl.file[1].ID_INSCRICAO = cl.silver[2].ID_INSCRICAO
    /\ cl.duplicate_parts = <<cl.silver[3]>>

\* C26 as stated: after every batch of streaming cleaning, and at its end,
\* the rows of the cleaned file, of the invalid quarantine and of the
\* duplicates quarantine add up to the input rows read so far, and the three
\* outputs of one-pass cleaning of the same input add up to the input.
C26_RowsConserved ==
    cl.on
    => /\ Len(cl.file) + Len(cl.invalid_parts) + Len(cl.duplicate_parts)
            = cl.pos
       /\ cl.total_rows = Len(cl.file)
       /\ cl.status # "running" => cl.pos = Len(cl.silver)
       /\ LET batch == run_cleaning_pipeline(cl.silver, cl.dtype, "declared")
          IN Len(batch.cleaned_df) + Len(batch.invalid_rows)
               + Len(batch.duplicates) = Len(cl.silver)

(***************************************************************************)
(* Specification of one-pass cleaning applied to a dataset and then to its *)
(* own cleaned output, called directly (run_cleaning_pipeline(df, year),   *)
(* which loads the metadata itself) or through CleanseAgent.run.           *)
(***************************************************************************)
NoArtifacts == [cleaned_df |-> <<>>, dtype |-> "none", invalid_rows |-> <<>>,
                duplicates |-> <<>>, raised |-> "none"]

InitCleanOnce ==
    /\ \E silver \in SilverFrames, dtype \in {"int64", "Int64"},
          metadata \in {"declared", "empty", "missing"}, caller \in {"pipeline", "agent"} :
          cl = [on |-> TRUE, silver |-> silver, dtype |-> dtype,
                metadata |-> metadata, caller |-> caller,
                first |-> NoArtifacts, second |-> NoArtifacts,
                status |-> "loaded", err |-> "none"]
    /\ cleaned = {}
    /\ gaps = {}
    /\ gold = [f \in AllFiles |-> NoFile]
    /\ nextRun = 0
    /\ lastCall = Idle
    /\ NoWorkflow
    /\ agg = Idle
    /\ cs = Idle
    /\ th = Idle
    /\ sv = Idle
    /\ gt = Idle

\* artifacts = run_cleaning_pipeline(df, year[, metadata]).  The agent calls
\* load_metadata() itself, outside any try: a missing file ends its run with
\* FileNotFoundError before the pipeline is entered.
RunCleaning ==
    /\ cl.on
    /\ cl.status = "loaded"
    /\ LET artifacts == run_cleaning_pipeline(cl.silver, cl.dtype, cl.metadata)
       IN cl' = IF cl.caller = "agent" /\ cl.metadata = "missing"
                THEN [cl EXCEPT !.status = "raised",
                                !.err = "FileNotFoundError"]
                ELSE IF artifacts.raised # "none"
                THEN [cl EXCEPT !.status = "raised", !.err = artifacts.raised]
                ELSE [cl EXCEPT !.first = artifacts, !.status = "cleaned"]
    /\ UNCHANGED <<wfVars, lastCall, agg, cs, th, sv, gt>>

\* run_cleaning_pipeline(artifacts.cleaned_df, year)
RunCleaningAgain ==
    /\ cl.on
    /\ cl.status = "cleaned"
    /\ cl' = [cl EXCEPT
                !.second = run_cleaning_pipeline(cl.first.cleaned_df,
                                                 cl.first.dtype, cl.metadata),
                !.status = "recleaned"]
    /\ UNCHANGED <<wfVars, lastCall, agg, cs, th, sv, gt>>

NextCleanOnce == RunCleaning \/ RunCleaningAgain

SpecCleanOnce == InitCleanOnce /\ [][NextCleanOnce]_vars

DistinctIds(rows) == {rows[i].ID_INSCRICAO : i \in DOMAIN rows}

NoDuplicateIds(rows) ==
    \A i, j \in DOMAIN rows :
       rows[i].ID_INSCRICAO = rows[j].ID_INSCRICAO => i = j

\* C16 as stated: the cleaned set of a dataset, and of that cleaned set
\* cleaned again, has no identifier twice, and the duplicates quarantine has
\* total_rows minus distinct_identifiers of the input rows.
C16_QuarantineSizeOfInput ==
    (cl.on /\ cl.status = "recleaned")
    => /\ NoDuplicateIds(cl.first.cleaned_df)
       /\ NoDuplicateIds(cl.second.cleaned_df)
       /\ Len(cl.first.duplicates)
            = Len(cl.silver) - Cardinality(DistinctIds(cl.silver))

\* C16 amended: rows that fail range validation are set aside before
\* deduplication, so the duplicates quarantine has the number of rows that
\* passed range validation minus the number of distinct identifiers among
\* them; the cleaned set has no identifier twice, and cleaning it again
\* returns the same rows with nothing quarantined.
C16_QuarantineSizeOfValidRows ==
    (cl.on /\ cl.status = "recleaned")
    => LET valid == SelectSeq(cl.silver,
                              LAMBDA r : ~validate_numeric_ranges(r))
       IN /\ NoDuplicateIds(cl.first.cleaned_df)
          /\ Len(cl.first.duplicates)
               = Len(valid) - Cardinality(DistinctIds(valid))
          /\ Len(cl.first.cleaned_df) = Cardinality(DistinctIds(valid))
          /\ cl.second.cleaned_df = cl.first.cleaned_df
          /\ cl.second.duplicates = <<>>
          /\ cl.second.invalid_rows = <<>>

\* A cleaned-twice dataset in which a rejected row shares its identifier
\* with a kept row and a quarantined duplicate.
C16_Witness ==
    /\ cl.on
    /\ cl.status = "recleaned"
    /\ Len(cl.first.invalid_rows) = 1
    /\ Len(cl.first.duplicates) = 1
    /\ Len(cl.first.cleaned_df) = 1
    /\ Cardinality(DistinctIds(cl.silver)) = 1

\* C21 as stated: without reference metadata (file missing, or no declared
\* rule) one-pass cleaning, called directly or through the cleaning agent,
\* does not raise, and its cleaned set is the first occurrences of the rows
\* within the numeric ranges, with no value replaced.
C21_NoMetadataOnlyRanges ==
    (cl.on /\ cl.metadata # "declared")
    => /\ cl.status # "raised"
       /\ cl.status \in {"cleaned", "recleaned"}
          => LET valid == SelectSeq(cl.silver,
                                    LAMBDA r : ~validate_numeric_ranges(r))
             IN /\ cl.first.cleaned_df = Dedup(valid, {}, <<>>, <<>>).kept
                /\ cl.first.invalid_rows
                     = SelectSeq(cl.silver, validate_numeric_ranges)

(***************************************************************************)
(* Specification of build_tb_notas_parquet_streaming (data/                *)
(* silver_to_gold.py) over a sequence of years whose cleaned files exist.  *)
(* A cleaned file has a number of rows, the dtype of its score columns and *)
(* the optional demographic column TP_SEXO or not.  The state is kept in   *)
(* lastCall.                                                               *)
(***************************************************************************)
MaxNotasYears == 2

\* Schema of pa.Table.from_pandas(_clean_columns(df_batch, year)): the score
\* columns are always there as float32, whatever they were; ANO and
\* ID_INSCRICAO are there; a demographic column is there only when the
\* cleaned file has it.
clean_columns_schema(file) ==
    [columns |-> {"ANO", "ID_INSCRICAO", "NOTA_MATEMATICA"}
                 \cup (IF file.sexo THEN {"TP_SEXO"} ELSE {}),
     nota |-> "float32"]

InitNotas ==
    /\ LET CleanedFiles == [rows : 0..2, nota : {"float64", "int64", "object"},
                            sexo : BOOLEAN]
       IN \E files \in UNION {[1..n -> CleanedFiles] : n \in 0..MaxNotasYears},
             rows_per_batch \in 1..2 :
          lastCall = [on |-> TRUE, files |-> files,
                      rows_per_batch |-> rows_per_batch,
                      year |-> 1, pos |-> 0, writer |-> <<>>,
                      tb_notas |-> 0, total_rows |-> 0, status |-> "running"]
    /\ cleaned = {}
    /\ gaps = {}
    /\ gold = [f \in AllFiles |-> NoFile]
    /\ nextRun = 0
    /\ NoWorkflow
    /\ NoSubModels

\* One iteration of the inner loop over pf.iter_batches: the first table
\* opens the writer with its schema; write_table raises ValueError on a
\* table of another schema.  A file whose batches are exhausted moves the
\* outer loop to the next year.
NotasBatch ==
    /\ lastCall.on
    /\ lastCall.status = "running"
    /\ lastCall.year <= Len(lastCall.files)
    /\ LET file == lastCall.files[lastCall.year]
           n == Min(lastCall.rows_per_batch, file.rows - lastCall.pos)
           schema == clean_columns_schema(file)
           writer == IF lastCall.writer = <<>> THEN <<schema>>
                     ELSE lastCall.writer
       IN lastCall' =
            IF lastCall.pos = file.rows
            THEN [lastCall EXCEPT !.year = @ + 1, !.pos = 0]
            ELSE IF writer # <<schema>>
            THEN [lastCall EXCEPT !.total_rows = @ + n, !.writer = writer,
                                  !.status = "raised"]
            ELSE [lastCall EXCEPT !.pos = @ + n, !.total_rows = @ + n,
                                  !.writer = writer, !.tb_notas = @ + n]
    /\ UNCHANGED <<wfVars, agg, cl, cs, th, sv, gt>>

\* After the loops: an empty file with the expected columns when no batch
\* was read, else writer.close(); total_rows is returned.
NotasFinish ==
    /\ lastCall.on
    /\ lastCall.status = "running"
    /\ lastCall.year > Len(lastCall.files)
    /\ lastCall' = [lastCall EXCEPT !.status = "returned"]
    /\ UNCHANGED <<wfVars, agg, cl, cs, th, sv, gt>>

NextNotas == NotasBatch \/ NotasFinish

SpecNotas == InitNotas /\ [][NextNotas]_vars

\* C23 as stated: over any sequence of cleaned files, of whatever score
\* dtypes and optional columns, build_tb_notas_parquet_streaming does not
\* raise, and when it has returned tb_notas.parquet holds one row per row of
\* every file and the returned total is that number.
C23_NotasOneRowPerCleanedRow ==
    lastCall.on
    => /\ lastCall.status # "raised"
       /\ lastCall.status = "returned"
          => LET rows[i \in 0..Len(lastCall.files)] ==
                     IF i = 0 THEN 0
                     ELSE rows[i - 1] + lastCall.files[i].rows
             IN /\ lastCall.tb_notas = rows[Len(lastCall.files)]
                /\ lastCall.total_rows = lastCall.tb_notas

(***************************************************************************)
(* Specification of streaming class derivation                             *)
(* (data/class_engineering/streaming.py) against run_class_pipeline        *)
(* (data/class_engineering/transformers.py).  A cleaned row carries the    *)
(* age, two score columns and the income answer; NA is a missing number,   *)
(* NullText a missing text.                                                *)
(***************************************************************************)
MaxClassRows == 2

NullText == "<NA>"

\* _class_faixa_etaria: pd.cut with bins [0, 17, 24, 34, 200], the lowest
\* edge included; outside the bins or missing gives a null category.
class_faixa_etaria(row) ==
    LET idade == row.NU_IDADE
    IN IF idade = NA \/ idade < 0 \/ idade > 200 THEN NullText
       ELSE IF idade <= 17 THEN "ATE_17"
       ELSE IF idade <= 24 THEN "18_A_24"
       ELSE IF idade <= 34 THEN "25_A_34"
       ELSE "35_MAIS"

\* _class_nota_global: mean over the NOTA_ columns skipping nulls, kept as
\* sum and count; mean >= 650 is sum >= 650 * count.
class_nota_global(row) ==
    LET notas == <<row.NOTA_MATEMATICA, row.NOTA_LINGUAGENS_CODIGOS>>
        present == {i \in DOMAIN notas : notas[i] # NA}
        total == (IF 1 \in present THEN notas[1] ELSE 0)
                 + (IF 2 \in present THEN notas[2] ELSE 0)
        n == Cardinality(present)
    IN IF n = 0 THEN "NA"
       ELSE IF total >= 650 * n THEN "ALTA"
       ELSE IF total >= 550 * n THEN "MEDIA"
       ELSE "BAIXA"

\* _class_renda: fillna("UNKNOWN"), then the mapping with default UNKNOWN.
class_renda(row) ==
    LET renda == IF row.RENDA_FAMILIAR = NullText THEN "UNKNOWN"
                 ELSE row.RENDA_FAMILIAR
    IN IF renda \in {"A", "B", "C", "UNKNOWN"} THEN renda ELSE "UNKNOWN"

\* apply_class_definitions on one frame: the frame plus the class columns.
apply_class_definitions(df) ==
    [i \in DOMAIN df |->
       [row |-> df[i],
        CLASS_FAIXA_ETARIA |-> class_faixa_etaria(df[i]),
        CLASS_NOTA_GLOBAL |-> class_nota_global(df[i]),
        CLASS_RENDA_FAMILIAR |-> class_renda(df[i])]]

\* The loop of run_class_pipeline: slices of chunk_size rows, transformed
\* one by one and concatenated.
RECURSIVE ClassChunks(_, _, _)
ClassChunks(df, start, chunk_size) ==
    IF start >= Len(df) THEN <<>>
    ELSE apply_class_definitions(
             SubSeq(df, start + 1, Min(start + chunk_size, Len(df))))
         \o ClassChunks(df, start + chunk_size, chunk_size)

DefaultChunkSize == 100000

\* run_class_pipeline: with no chunk classes_df is pd.DataFrame(), which has
\* no class column, and _build_summary raises KeyError on it.
run_class_pipeline(df) ==
    [classes_df |-> ClassChunks(df, 0, DefaultChunkSize),
     raised |-> Len(df) = 0]

InitClass ==
    /\ LET CleanRows == [NU_IDADE : {NA, 17, 30},
                         NOTA_MATEMATICA : {NA, 500},
                         NOTA_LINGUAGENS_CODIGOS : {NA, 700},
                         RENDA_FAMILIAR : {NullText, "A", "Z"}]
           CleanFrames == UNION {[1..n -> CleanRows] : n \in 0..MaxClassRows}
       IN \E clean \in CleanFrames, chunk_rows \in 1..MaxClassRows :
          cs = [on |-> TRUE, clean |-> clean, chunk_rows |-> chunk_rows,
                pos |-> 0, writer |-> FALSE, file |-> <<>>,
                class_columns |-> FALSE, total_rows |-> 0,
                status |-> "running"]
    /\ cleaned = {}
    /\ gaps = {}
    /\ gold = [f \in AllFiles |-> NoFile]
    /\ nextRun = 0
    /\ lastCall = Idle
    /\ NoWorkflow
    /\ agg = Idle
    /\ cl = Idle
    /\ th = Idle
    /\ sv = Idle
    /\ gt = Idle

\* One iteration of the loop over pf.iter_batches(batch_size).
ClassBatch ==
    /\ cs.on
    /\ cs.status = "running"
    /\ cs.pos < Len(cs.clean)
    /\ LET last == Min(cs.pos + cs.chunk_rows, Len(cs.clean))
           transformed ==
               apply_class_definitions(SubSeq(cs.clean, cs.pos + 1, last))
       IN cs' = [cs EXCEPT !.pos = last,
                           !.writer = TRUE,
                           !.class_columns = TRUE,
                           !.file = @ \o transformed,
                           !.total_rows = @ + Len(transformed)]
    /\ UNCHANGED <<wfVars, lastCall, agg, cl, th, sv, gt>>

\* After the loop: with no batch an empty frame with the input's column
\* names is written; otherwise the writer is closed.
ClassFinish ==
    /\ cs.on
    /\ cs.status = "running"
    /\ cs.pos = Len(cs.clean)
    /\ cs' = [cs EXCEPT !.status = "returned"]
    /\ UNCHANGED <<wfVars, lastCall, agg, cl, th, sv, gt>>

NextClass == ClassBatch \/ ClassFinish

SpecClass == InitClass /\ [][NextClass]_vars

\* C3 as stated: when stream_class_pipeline has returned, run_class_pipeline
\* on the same dataset produces a classes_df, and the rows of the classes
\* file are the rows of that classes_df.
C3_StreamingClassesMatchBatch ==
    (cs.on /\ cs.status = "returned")
    => LET batch == run_class_pipeline(cs.clean) IN
       /\ ~batch.raised
       /\ cs.file = batch.classes_df

(***************************************************************************)
(* Specification of DuckDBAgent used by the threads of one process         *)
(* (infra/db_agent.py): the module-level reentrant lock _DB_LOCK, the      *)
(* per-agent cached connection self._conn, and the calls run_query,        *)
(* execute_script, register_parquet_views, get_connection and close.  A    *)
(* connection handle is numbered by the order in which duckdb.connect      *)
(* returned it; the database contents are the number of write statements   *)
(* the engine has carried out.                                             *)
(***************************************************************************)
MaxCalls == 2

Threads == {"t1", "t2"}
Agents == {"a1", "a2"}
Handles == 1..MaxCalls
NoConn == 0
NoThread == "none"

\* DuckDBAgent._get_conn: read-only mode connects anew on every call and
\* leaves self._conn alone; write mode returns self._conn, connecting and
\* caching it first when it is None.  `fresh` is the handle duckdb.connect
\* would return.
DuckDBAgent_get_conn_cached(read_only, cached, fresh) ==
    IF cached # NoConn THEN [conn |-> cached, cache |-> cached]
    ELSE [conn |-> fresh, cache |-> fresh]

DuckDBAgent_get_conn(read_only, cached, fresh) ==
    IF read_only THEN [conn |-> fresh, cache |-> cached]
    ELSE IF cached # NoConn THEN [conn |-> cached, cache |-> cached]
    ELSE [conn |-> fresh, cache |-> fresh]

\* The statements a caller sends: a SELECT, an INSERT (one of the commands
\* _enforce_guardrails looks for) and a CREATE TABLE (a write that is not
\* on its list).
Statements == {"select", "insert", "create"}

IsWrite(stmt) == stmt \in {"insert", "create"}

\* DuckDBAgent._enforce_guardrails: in read-only mode a statement holding
\* "drop ", "delete ", "truncate ", "update ", "insert " or "alter " raises
\* ValueError; every other statement goes on (a SELECT possibly with a
\* LIMIT appended).
enforce_guardrails(read_only, stmt) ==
    IF read_only /\ stmt = "insert" THEN "ValueError" ELSE "ok"

\* DuckDBAgent.execute_script, first statement: raises ValueError on a
\* read-only agent before any connection is taken.
execute_script_unguarded(read_only) == "ok"

execute_script_guard(read_only) ==
    IF read_only THEN "ValueError" ELSE "ok"

\* conn.execute(stmt) on a handle: the engine rejects a write statement on
\* a handle that was opened with read_only=True / access_mode READ_ONLY.
engine_execute(handle_read_only, stmt) ==
    IF handle_read_only /\ IsWrite(stmt) THEN "duckdb.Error" ELSE "ok"

NoOp == [kind |-> "none", agent |-> "none", id |-> 0, stmt |-> "none"]

\* The record of a call that has just left.
Finished(op, read_only, out, changed) ==
    [kind |-> op.kind, read_only |-> read_only,
     stmt |-> op.stmt, out |-> out, changed |-> changed]

InitThreads ==
    /\ \E ro \in [Agents -> BOOLEAN] :
          th = [on |-> TRUE,
                read_only |-> ro,
                conn_cache |-> [a \in Agents |-> NoConn],
                lock |-> [owner |-> NoThread, count |-> 0],
                pc |-> [t \in Threads |-> "idle"],
                op |-> [t \in Threads |-> NoOp],
                conn |-> [t \in Threads |-> NoConn],
                calls |-> 0,
                opened |-> 0,
                opener |-> [h \in Handles |->
                              [id |-> 0, thread |-> NoThread,
                               agent |-> "none", read_only |-> FALSE]],
                users |-> [h \in Handles |-> {}],
                closed |-> {},
                closed_agents |-> {},
                db |-> 0,
                last |-> [kind |-> "none", read_only |-> FALSE,
                         stmt |-> "none", out |-> "none",
                         changed |-> FALSE]]
    /\ cleaned = {}
    /\ gaps = {}
    /\ gold = [f \in AllFiles |-> NoFile]
    /\ nextRun = 0
    /\ lastCall = Idle
    /\ NoWorkflow
    /\ agg = Idle
    /\ cl = Idle
    /\ cs = Idle
    /\ sv = Idle
    /\ gt = Idle

ThreadsUnchanged ==
    UNCHANGED <<wfVars, lastCall, agg, cl, cs, sv, gt>>

\* A thread enters run_query on a read-only agent: the guardrails raise,
\* or it goes to `with _DB_LOCK`.
StartReadQuery(t, a) ==
    /\ th.on
    /\ th.pc[t] = "idle"
    /\ th.calls < MaxCalls
    /\ th.read_only[a]
    /\ \E stmt \in Statements :
          LET op == [kind |-> "run_query", agent |-> a,
                     id |-> th.calls + 1, stmt |-> stmt]
              guarded == enforce_guardrails(TRUE, stmt)
          IN th' = IF guarded # "ok"
                   THEN [th EXCEPT !.calls = @ + 1,
                                   !.last = Finished(op, TRUE, guarded,
                                                     FALSE)]
                   ELSE [th EXCEPT !.calls = @ + 1,
                                   !.op[t] = op,
                                   !.pc[t] = "acquire"]
    /\ ThreadsUnchanged

\* A thread calls execute_script (raises ValueError), register_parquet_views
\* (logs a warning and returns) or get_connection (connects, without
\* _DB_LOCK, and the caller runs a statement on the handle) on a read-only
\* agent.
StartReadOnlyOp(t, a, kind) ==
    /\ th.on
    /\ th.pc[t] = "idle"
    /\ th.calls < MaxCalls
    /\ th.read_only[a]
    /\ \E stmt \in (IF kind = "get_connection" THEN Statements
                     ELSE {"create"}) :
          LET op == [kind |-> kind, agent |-> a, id |-> th.calls + 1,
                     stmt |-> stmt]
              early == IF kind = "execute_script"
                       THEN execute_script_guard(TRUE)
                       ELSE IF kind = "register_parquet_views"
                       THEN "ignored"
                       ELSE "ok"
          IN th' = IF early # "ok"
                   THEN [th EXCEPT !.calls = @ + 1,
                                   !.last = Finished(op, TRUE, early, FALSE)]
                   ELSE [th EXCEPT !.calls = @ + 1,
                                   !.op[t] = op,
                                   !.pc[t] = "get_conn"]
    /\ ThreadsUnchanged

\* A thread enters run_query, execute_script or register_parquet_views on
\* a write-mode agent: none of the three takes _DB_LOCK.
StartWriteOp(t, a, kind) ==
    /\ th.on
    /\ th.pc[t] = "idle"
    /\ th.calls < MaxCalls
    /\ ~th.read_only[a]
    /\ \E stmt \in (IF kind = "run_query" THEN Statements ELSE {"create"}) :
          th' = [th EXCEPT !.calls = @ + 1,
                           !.op[t] = [kind |-> kind, agent |-> a,
                                      id |-> th.calls + 1, stmt |-> stmt],
                           !.pc[t] = "get_conn"]
    /\ ThreadsUnchanged

\* _DB_LOCK.__enter__: blocks while another thread owns the lock.
AcquireLock(t) ==
    /\ th.on
    /\ th.pc[t] = "acquire"
    /\ th.lock.owner \in {NoThread, t}
    /\ th' = [th EXCEPT !.lock = [owner |-> t, count |-> @.count + 1],
                        !.pc[t] = "get_conn"]
    /\ ThreadsUnchanged

ReleasedLock(lock, t) ==
    IF lock.owner # t THEN lock
    ELSE IF lock.count = 1 THEN [owner |-> NoThread, count |-> 0]
    ELSE [lock EXCEPT !.count = @ - 1]

\* conn = self._get_conn(), followed by conn.execute(...): from here on the
\* call is executing on the handle.
GetConn(t) ==
    /\ th.on
    /\ th.pc[t] = "get_conn"
    /\ LET a == th.op[t].agent
           fresh == th.opened + 1
           res == DuckDBAgent_get_conn(th.read_only[a], th.conn_cache[a],
                                       fresh)
       IN th' = [th EXCEPT
                   !.opened = IF res.conn = fresh THEN fresh ELSE @,
                   !.opener[res.conn] =
                       IF res.conn = fresh
                       THEN [id |-> th.op[t].id, thread |-> t, agent |-> a,
                             read_only |-> th.read_only[a]]
                       ELSE @,
                   !.conn_cache[a] = res.cache,
                   !.conn[t] = res.conn,
                   !.users[res.conn] = @ \cup {th.op[t].id},
                   !.pc[t] = "execute"]
    /\ ThreadsUnchanged

\* duckdb.connect raises (logged and re-raised); the with block releases
\* the lock on the way out.
ConnectRaises(t) ==
    /\ th.on
    /\ th.pc[t] = "get_conn"
    /\ th.read_only[th.op[t].agent] \/ th.conn_cache[th.op[t].agent] = NoConn
    /\ th' = [th EXCEPT !.lock = ReleasedLock(@, t),
                        !.op[t] = NoOp,
                        !.pc[t] = "idle",
                        !.last = Finished(th.op[t],
                                          th.read_only[th.op[t].agent],
                                          "connect_error", FALSE)]
    /\ ThreadsUnchanged

\* The statement ends (with a result or an exception) and the call leaves;
\* a write statement the engine carried out has changed the database.
Return(t) ==
    /\ th.on
    /\ th.pc[t] = "execute"
    /\ LET out == engine_execute(th.opener[th.conn[t]].read_only,
                                 th.op[t].stmt)
           changed == out = "ok" /\ IsWrite(th.op[t].stmt)
       IN th' = [th EXCEPT !.lock = ReleasedLock(@, t),
                           !.op[t] = NoOp,
                           !.conn[t] = NoConn,
                           !.pc[t] = "idle",
                           !.db = IF changed THEN @ + 1 ELSE @,
                           !.last = Finished(th.op[t],
                                             th.read_only[th.op[t].agent],
                                             out, changed)]
    /\ ThreadsUnchanged

\* DuckDBAgent.close(): closes and forgets self._conn when there is one,
\* and does nothing else.  closed_agents keeps the read-only agents that
\* were closed; a close() that changes nothing (a write-mode agent without
\* a connection, a read-only agent closed before) is left out.
Close(t, a) ==
    /\ th.on
    /\ th.pc[t] = "idle"
    /\ \/ th.conn_cache[a] # NoConn
       \/ th.read_only[a] /\ a \notin th.closed_agents
    /\ th' = [th EXCEPT !.closed = IF th.conn_cache[a] # NoConn
                                   THEN @ \cup {th.conn_cache[a]} ELSE @,
                        !.conn_cache[a] = NoConn,
                        !.closed_agents = IF th.read_only[a]
                                          THEN @ \cup {a} ELSE @]
    /\ ThreadsUnchanged

ThreadStep(t) ==
    \/ \E a \in Agents : StartReadQuery(t, a)
    \/ \E a \in Agents, kind \in {"execute_script", "register_parquet_views",
                                  "get_connection"} : StartReadOnlyOp(t, a, kind)
    \/ \E a \in Agents, kind \in {"run_query", "execute_script",
                                  "register_parquet_views"} : StartWriteOp(t, a, kind)
    \/ AcquireLock(t)
    \/ GetConn(t)
    \/ ConnectRaises(t)
    \/ Return(t)
    \/ \E a \in Agents : Close(t, a)

NextThreads == \E t \in Threads : ThreadStep(t)

SpecThreads == InitThreads /\ [][NextThreads]_vars

\* C7 as stated: a thread executing a write-mode operation holds _DB_LOCK,
\* and no two threads execute write-mode operations at the same time.
C7_WriteOpsSerialized ==
    th.on
    => /\ \A t \in Threads : (th.pc[t] = "execute" /\ ~th.read_only[th.op[t].agent]) => th.lock.owner = t
       /\ \A t, u \in Threads :
             (t # u /\ (th.pc[t] = "execute" /\ ~th.read_only[th.op[t].agent])) => ~(th.pc[u] = "execute" /\ ~th.read_only[th.op[u].agent])

C24_ReadOnlyAgentBlocksWrites ==
    (th.on /\ th.last.read_only)
    => /\ ~th.last.changed
       /\ th.last.kind = "execute_script" => th.last.out = "ValueError"
       /\ (th.last.kind = "get_connection" /\ IsWrite(th.last.stmt))
          => th.last.out \in {"duckdb.Error", "connect_error"}
       /\ (th.last.kind = "run_query" /\ IsWrite(th.last.stmt))
          => th.last.out \in {"ValueError", "duckdb.Error", "connect_error"}

\* A CREATE TABLE run directly on a connection taken from a read-only
\* agent came back with the engine's error, after a write-mode agent had
\* changed the database.
C24_Witness ==
    /\ th.on
    /\ th.db > 0
    /\ th.last.read_only
    /\ th.last.kind = "get_connection"
    /\ th.last.stmt = "create"
    /\ th.last.out = "duckdb.Error"

\* C30 as stated: once a read-only agent has been closed, every connection
\* it opened that no call is executing on is closed.
C30_ReadOnlyConnectionsClosed ==
    th.on
    => \A h \in Handles :
          (/\ th.opener[h].read_only
           /\ th.opener[h].agent \in th.closed_agents
           /\ \A t \in Threads : th.conn[t] # h)
          => h \in th.closed

(***************************************************************************)
(* Specification of raw-to-silver for one year (data/raw_to_silver.py,     *)
(* with infra/io.py append_to_parquet), entered through run_raw_to_silver, *)
(* through EtlRawToSilverAgent.run on a context that holds the raw handle, *)
(* or through the ETL workflow (run_etl_for_years: DataIngestion,          *)
(* Validation, EtlRawToSilver, Reporting).  A raw row carries the          *)
(* registration number and the year column as text, as read from the CSV;  *)
(* a silver row carries ID_INSCRICAO and ANO.  A file of a directory is    *)
(* named by the case of its stem (MICRODADOS_ENEM_ or microdados_enem_)    *)
(* and its year (year 0: no file); a path part is text, or four digits     *)
(* with their value.                                                       *)
(***************************************************************************)
MaxRawRows == 3

\* _coerce_string: astype("string").str.strip().
coerce_string(s) == IF s = " 2 " THEN "2" ELSE s

\* pd.to_numeric(..., errors="coerce") on the text of the year column.
to_numeric(s) == IF s = "2019" THEN 2019 ELSE NA

\* clean_and_standardize on one frame: ID_INSCRICAO stripped, ANO numeric
\* with the processing year where the raw value is missing or not a number.
clean_and_standardize(df, year) ==
    [i \in DOMAIN df |->
       [ID_INSCRICAO |-> coerce_string(df[i].NU_INSCRICAO),
        ANO |-> IF to_numeric(df[i].NU_ANO) = NA THEN year
                ELSE to_numeric(df[i].NU_ANO)]]

\* append_to_parquet: a path that does not exist is written with the frame;
\* on a path that exists a new ParquetWriter is opened on it, which starts
\* the file again, and the frame is written to it.  The read-concatenate-
\* rewrite fallback runs only when that write raises.
append_to_parquet(df, exists, file) ==
    IF ~exists THEN df ELSE df

\* _infer_year_from_path: the first part of the path that is four digits,
\* else settings.years[-1], the last configured year (2020 here).
infer_year_from_path(parts) ==
    LET digits == {i \in DOMAIN parts : parts[i].digits}
    IN IF digits = {} THEN 2020
       ELSE parts[CHOOSE i \in digits : \A j \in digits : i <= j].value

\* raw_data_path(year): DATA_DIR / 00_raw / microdados_enem_{year} / DADOS /
\* MICRODADOS_ENEM_{year}.csv, or the file of that name in another case
\* that the case-insensitive search finds.  No part after DATA_DIR is four
\* digits alone.
raw_data_path(data_dir, year, upper) ==
    [parts |-> data_dir \o [i \in 1..4 |-> [digits |-> FALSE, value |-> 0]],
     name |-> [upper |-> upper, year |-> year]]

\* The raw file of one year (up to MaxRawRows rows), whether it meets the
\* streaming threshold of the hardware profile, the chunk size of the
\* profile, and a silver directory that may hold a file of an earlier run at
\* the path about to be written.
InitSilver ==
    /\ LET RawRows == [NU_INSCRICAO : {"1", " 2 "},
                       NU_ANO : {"2019", "x", ""}]
           RawFrames == UNION {[1..n -> RawRows] : n \in 0..MaxRawRows}
           StaleSilver == <<[ID_INSCRICAO |-> "0", ANO |-> 2020]>>
           DataDirs == {<<[digits |-> FALSE, value |-> 0]>>,
                        <<[digits |-> TRUE, value |-> 2021],
                          [digits |-> FALSE, value |-> 0]>>}
       IN \E raw \in RawFrames, chunk_rows \in 1..MaxRawRows,
             old \in BOOLEAN, year \in {2019, 2020}, upper \in BOOLEAN,
             data_dir \in DataDirs, streaming \in BOOLEAN,
             entry \in {"run_raw_to_silver", "agent", "workflow"} :
          sv = [on |-> TRUE, raw |-> raw, chunk_rows |-> chunk_rows,
                year |-> year,
                path |-> raw_data_path(data_dir, year, upper),
                streaming |-> streaming, entry |-> entry,
                pos |-> 0, exists |-> old,
                file |-> IF old THEN StaleSilver ELSE <<>>,
                written |-> [upper |-> FALSE, year |-> 0],
                artifact |-> [upper |-> FALSE, year |-> 0],
                total_rows |-> 0, last_columns |-> FALSE,
                ctx |-> IF entry = "agent" THEN {"raw"} ELSE {},
                steps |-> <<>>, err |-> "none",
                status |-> IF entry = "workflow" THEN "ingestion"
                           ELSE "called"]
    /\ cleaned = {}
    /\ gaps = {}
    /\ gold = [f \in AllFiles |-> NoFile]
    /\ nextRun = 0
    /\ lastCall = Idle
    /\ NoWorkflow
    /\ agg = Idle
    /\ cl = Idle
    /\ cs = Idle
    /\ th = Idle
    /\ gt = Idle

\* DataIngestionAgent.run: the raw handle gets the streaming reference when
\* resolve_streaming_reference returns one, the loaded frame otherwise.
Ingest ==
    /\ sv.on
    /\ sv.status = "ingestion"
    /\ sv' = [sv EXCEPT !.ctx = @ \cup {"raw"},
                        !.steps = Append(@, "DataIngestion"),
                        !.status = "validation"]
    /\ UNCHANGED <<wfVars, lastCall, agg, cl, cs, th, gt>>

\* ValidationAgent.run: len(df) on the payload of the raw handle.  A
\* RawDatasetReference is a dataclass without __len__, so len raises
\* TypeError; an empty frame raises ValueError; NU_INSCRICAO is among the
\* columns of every raw frame here.
Validate ==
    /\ sv.on
    /\ sv.status = "validation"
    /\ sv' = IF sv.streaming
             THEN [sv EXCEPT !.status = "raised", !.err = "TypeError"]
             ELSE IF Len(sv.raw) = 0
             THEN [sv EXCEPT !.status = "raised", !.err = "ValueError"]
             ELSE [sv EXCEPT !.steps = Append(@, "Validation"),
                             !.status = "called"]
    /\ UNCHANGED <<wfVars, lastCall, agg, cl, cs, th, gt>>

\* Entry of stream_raw_to_silver: the year is inferred from the path of the
\* raw file, the silver path takes the name of the raw file, and a file
\* already at that path is removed.
SilverStart ==
    /\ sv.on
    /\ sv.status = "called"
    /\ sv.streaming
    /\ sv' = [sv EXCEPT !.exists = FALSE, !.file = <<>>,
                        !.year = infer_year_from_path(sv.path.parts),
                        !.written = sv.path.name,
                        !.status = "running"]
    /\ UNCHANGED <<wfVars, lastCall, agg, cl, cs, th, gt>>

\* One iteration of the loop over iter_csv_chunks.
SilverChunk ==
    /\ sv.on
    /\ sv.status = "running"
    /\ sv.pos < Len(sv.raw)
    /\ LET last == Min(sv.pos + sv.chunk_rows, Len(sv.raw))
           clean_chunk ==
               clean_and_standardize(SubSeq(sv.raw, sv.pos + 1, last),
                                     sv.year)
       IN sv' = IF clean_chunk = <<>> THEN [sv EXCEPT !.pos = last]
                ELSE [sv EXCEPT
                        !.pos = last,
                        !.file = append_to_parquet(clean_chunk, sv.exists, @),
                        !.exists = TRUE,
                        !.total_rows = @ + Len(clean_chunk),
                        !.last_columns = TRUE]
    /\ UNCHANGED <<wfVars, lastCall, agg, cl, cs, th, gt>>

\* The silver_{year} handle of EtlRawToSilverAgent.run: the artifact's path
\* is out_path, silver_dir / microdados_enem_{self.year}.parquet, in both
\* modes; run_raw_to_silver returns the path that was written.
EtlDone(s, year) ==
    IF s.entry = "run_raw_to_silver"
    THEN [s EXCEPT !.artifact = s.written, !.status = "returned"]
    ELSE [s EXCEPT !.artifact = [upper |-> FALSE, year |-> year],
                   !.ctx = (@ \ {"raw"}) \cup {"silver"},
                   !.steps = Append(@, "EtlRawToSilver"),
                   !.status = IF s.entry = "workflow" THEN "reporting"
                              ELSE "returned"]

\* After the loop: StreamToSilverResult(path, row_count, columns).
SilverFinish ==
    /\ sv.on
    /\ sv.status = "running"
    /\ sv.pos = Len(sv.raw)
    /\ sv' = EtlDone(sv, sv.path.name.year)
    /\ UNCHANGED <<wfVars, lastCall, agg, cl, cs, th, gt>>

\* The one-pass branch: clean_and_standardize(df, year) on the whole frame
\* with the year of the call, written to silver_dir /
\* microdados_enem_{year}.parquet.
SilverOnePass ==
    /\ sv.on
    /\ sv.status = "called"
    /\ ~sv.streaming
    /\ LET df_clean == clean_and_standardize(sv.raw, sv.year)
           out_path == [upper |-> FALSE, year |-> sv.year]
       IN sv' = EtlDone([sv EXCEPT !.file = df_clean, !.exists = TRUE,
                                   !.written = out_path,
                                   !.total_rows = Len(df_clean),
                                   !.last_columns = TRUE], sv.year)
    /\ UNCHANGED <<wfVars, lastCall, agg, cl, cs, th, gt>>

\* ReportingAgent.run: the payload of the silver handle is a
\* DatasetArtifact; the qa_summary handle replaces the silver handle.
Report ==
    /\ sv.on
    /\ sv.status = "reporting"
    /\ sv' = [sv EXCEPT !.ctx = (@ \ {"silver"}) \cup {"qa_summary"},
                        !.steps = Append(@, "Reporting"),
                        !.status = "returned"]
    /\ UNCHANGED <<wfVars, lastCall, agg, cl, cs, th, gt>>

NextSilver ==
    \/ Ingest
    \/ Validate
    \/ SilverStart
    \/ SilverChunk
    \/ SilverFinish
    \/ SilverOnePass
    \/ Report

SpecSilver == InitSilver /\ [][NextSilver]_vars

\* C13 as stated: when a streaming stage has returned on an input without
\* rows, its output artifact exists and has the columns of the stage's
\* output: the silver file for raw-to-silver, the cleaned file for cleaning,
\* the classes file with the class columns for class derivation.
C13_EmptyInputStillWritesArtifact ==
    /\ (sv.on /\ sv.streaming /\ sv.status = "returned" /\ Len(sv.raw) = 0)
       => sv.exists
    /\ (cl.on /\ cl.status = "returned" /\ Len(cl.silver) = 0)
       => cl.writer # NoWriterOpen
    /\ (cs.on /\ cs.status = "returned" /\ Len(cs.clean) = 0)
       => cs.class_columns

\* C14 as stated: once a chunk has been appended, the silver file holds the
\* normalized rows of every chunk read so far, in input order, and as many
\* rows as counted in row_count.
C14_SilverFileGrows ==
    (sv.on /\ sv.pos > 0)
    => /\ sv.exists
       /\ sv.file = clean_and_standardize(SubSeq(sv.raw, 1, sv.pos), sv.year)
       /\ sv.total_rows = Len(sv.file)

\* C22 as stated: every row of the silver file written for a year's source
\* file, by the one-pass path or by the streaming path, has the raw year
\* value as ANO when that value is numeric and the year of the source file
\* otherwise.
C22_AnoForcedToProcessingYear ==
    (sv.on /\ sv.exists /\ sv.written.year # 0)
    => \A i \in DOMAIN sv.file :
          \E j \in DOMAIN sv.raw :
             sv.file[i] = clean_and_standardize(<<sv.raw[j]>>,
                                                sv.path.name.year)[1]

\* C28 as stated: the ETL workflow on a year whose raw file has rows and
\* meets the streaming threshold never has an agent raise, and when it has
\* returned the four agents have run in order and the context holds the
\* qa_summary handle.
C28_StreamingWorkflowCompletes ==
    (sv.on /\ sv.entry = "workflow" /\ sv.streaming /\ Len(sv.raw) > 0)
    => /\ sv.status # "raised"
       /\ sv.status = "returned"
          => /\ sv.steps = <<"DataIngestion", "Validation", "EtlRawToSilver",
                             "Reporting">>
             /\ "qa_summary" \in sv.ctx

\* C29 as stated: once EtlRawToSilverAgent has completed on a raw file with
\* rows, the path in the silver artifact is the path of the file that was
\* written, and it is silver_dir / microdados_enem_{year}.parquet, the file
\* CleanseAgent opens.
C29_SilverArtifactIsWrittenFile ==
    (sv.on /\ sv.entry # "run_raw_to_silver" /\ Len(sv.raw) > 0
       /\ "EtlRawToSilver" \in {sv.steps[i] : i \in DOMAIN sv.steps})
    => /\ sv.exists
       /\ sv.artifact = sv.written
       /\ sv.written = [upper |-> FALSE, year |-> sv.path.name.year]

(***************************************************************************)
(* Specification of one execution of the data quality gate                 *)
(* (infra/data_quality.py, assert_dashboard_data_checks) on a database in  *)
(* any state.  A table is absent or has a number of rows, the aggregate    *)
(* score columns the checks name or not, and one value standing for its    *)
(* score aggregate columns (the _min, _max and _mean columns).             *)
(***************************************************************************)
MaxTableRows == 1

GateTables == {"tb_notas", "tb_notas_stats", "tb_notas_geo",
               "tb_notas_geo_uf"}

\* Rows of a table with an aggregate score outside [0, 1000]; a null is
\* neither below 0 nor above 1000.
out_of_range(tb) ==
    IF tb.columns /\ tb.value # NullScore
       /\ (tb.value < 0 \/ tb.value > 1000)
    THEN tb.rows ELSE 0

\* The checks of run_dashboard_data_checks, in the order they are appended.
GateChecks == << [kind |-> "row_count", table |-> "tb_notas"],
                 [kind |-> "row_count", table |-> "tb_notas_stats"],
                 [kind |-> "row_count", table |-> "tb_notas_geo"],
                 [kind |-> "notas_range", table |-> "tb_notas_stats"],
                 [kind |-> "notas_range", table |-> "tb_notas_geo"] >>

\* The database the gate is called on: each table is absent, or holds up
\* to MaxTableRows rows; tb_notas carries no score aggregate.
InitGate ==
    /\ LET AbsentTable == [exists |-> FALSE, rows |-> 0, columns |-> FALSE,
                           value |-> NullScore]
           TableStates ==
               {AbsentTable}
               \cup [exists : {TRUE}, rows : 0..MaxTableRows,
                     columns : BOOLEAN, value : {NullScore, 500, 1200}]
       IN \E db \in [GateTables -> TableStates] :
          /\ db["tb_notas"].columns
          /\ db["tb_notas"].value = NullScore
          /\ gt = [on |-> TRUE, db |-> db, checks |-> <<>>, log |-> <<>>,
                   status |-> "checking", err |-> "none"]
    /\ cleaned = {}
    /\ gaps = {}
    /\ gold = [f \in AllFiles |-> NoFile]
    /\ nextRun = 0
    /\ lastCall = Idle
    /\ NoWorkflow
    /\ agg = Idle
    /\ cl = Idle
    /\ cs = Idle
    /\ th = Idle
    /\ sv = Idle

\* run_dashboard_data_checks, one checks.append(...): the check's query
\* runs; an exception of the engine (CatalogException for a table that is
\* not in the database, BinderException for a column that is not in the
\* table) leaves run_dashboard_data_checks and assert_dashboard_data_checks
\* at once.
GateCheck ==
    /\ gt.on
    /\ gt.status = "checking"
    /\ LET c == GateChecks[Len(gt.checks) + 1]
           e == IF ~gt.db[c.table].exists THEN "CatalogException"
                ELSE IF c.kind = "notas_range" /\ ~gt.db[c.table].columns
                THEN "BinderException"
                ELSE "none"
           \* _check_row_count_positive / _check_notas_range on a table
           \* they can query
           result == IF c.kind = "row_count"
                     THEN DataCheckResult(<<c.table, "row_count">>,
                                          gt.db[c.table].rows >= 1, "error")
                     ELSE DataCheckResult(<<c.table, "notas_in_range">>,
                                          out_of_range(gt.db[c.table]) = 0,
                                          "error")
       IN IF e # "none"
          THEN gt' = [gt EXCEPT !.status = "raised", !.err = e]
          ELSE gt' = [gt EXCEPT
                        !.checks = Append(@, result),
                        !.status = IF Len(gt.checks) + 1 = Len(GateChecks)
                                   THEN "logging" ELSE "checking"]
    /\ UNCHANGED <<wfVars, lastCall, agg, cl, cs, th, sv>>

\* run_dashboard_data_checks, the loop over checks after all of them have
\* been evaluated: one log call per check, at level success or error.
GateLog ==
    /\ gt.on
    /\ gt.status = "logging"
    /\ LET check == gt.checks[Len(gt.log) + 1]
       IN gt' = [gt EXCEPT
                   !.log = Append(@, [level |-> IF check.passed THEN "success"
                                                ELSE "error",
                                      name |-> check.name,
                                      passed |-> check.passed]),
                   !.status = IF Len(gt.log) + 1 = Len(gt.checks)
                              THEN "asserting" ELSE "logging"]
    /\ UNCHANGED <<wfVars, lastCall, agg, cl, cs, th, sv>>

\* assert_dashboard_data_checks after run_dashboard_data_checks returned.
GateAssert ==
    /\ gt.on
    /\ gt.status = "asserting"
    /\ gt' = IF failing(gt.checks) # {}
             THEN [gt EXCEPT !.status = "raised", !.err = "RuntimeError"]
             ELSE [gt EXCEPT !.status = "returned"]
    /\ UNCHANGED <<wfVars, lastCall, agg, cl, cs, th, sv>>

NextGate == GateCheck \/ GateLog \/ GateAssert

SpecGate == InitGate /\ [][NextGate]_vars

\* C18 as stated: when the gate has passed, every aggregate score value of
\* every table of the database that holds rows is within [0, 1000] or null.
C18_PassedGateMeansInRange ==
    (gt.on /\ gt.status = "returned")
    => \A t \in GateTables \ {"tb_notas"} : out_of_range(gt.db[t]) = 0

\* C19 as stated: when the gate has raised, every check result obtained
\* before the exception has been logged, in order.
C19_ResultsLoggedBeforeRaise ==
    (gt.on /\ gt.status = "raised")
    => /\ Len(gt.log) = Len(gt.checks)
       /\ \A i \in DOMAIN gt.checks :
             /\ gt.log[i].name = gt.checks[i].name
             /\ gt.log[i].passed = gt.checks[i].passed

(***************************************************************************)
(* Specification of build_profile_for_local (config/hardware.py), the call *)
(* that resolves PROFILE when the module is imported, as far as            *)
(* csv_chunk_rows goes.  RAM sizes are whole MiB; an environment variable  *)
(* is unset, holds a text that is not a number, or holds a number.  The    *)
(* state is kept in lastCall.                                              *)
(***************************************************************************)

\* The limits of the clamp in _calculate_chunk_rows.
MinChunkRows == 150000
MaxChunkRows == 1500000

\* _resolve_max_ram_pipeline, in MiB: min(ENEM_MAX_RAM_GB, 0.9 * ram) when
\* the variable parses as a float (_env_float), else min(12 GiB, 0.6 * ram).
resolve_max_ram_pipeline(ram, env_max_ram) ==
    IF env_max_ram.kind = "number"
    THEN Min(env_max_ram.value, (ram * 9) \div 10)
    ELSE Min(12 * 1024, (ram * 6) \div 10)

\* _calculate_chunk_rows without the clamp of its last assignment.
calculate_chunk_rows_unclamped(max_ram_pipeline, env_chunk_rows, env_row_bytes) ==
    IF env_chunk_rows.kind = "number" /\ env_chunk_rows.value > 0
    THEN [raised |-> FALSE, value |-> env_chunk_rows.value]
    ELSE IF env_row_bytes.kind = "text"
    THEN [raised |-> TRUE, value |-> 0]
    ELSE LET estimated_row_bytes == IF env_row_bytes.kind = "unset" THEN 450
                                    ELSE env_row_bytes.value
             row == IF estimated_row_bytes > 200 THEN estimated_row_bytes
                    ELSE 200
             quarter == 262144
             \* int(x / y) for y > 0 truncates toward zero
             TruncDiv(x, y) == IF x >= 0 THEN x \div y ELSE -((-x) \div y)
         IN [raised |-> FALSE,
             value |-> max_ram_pipeline * (quarter \div row)
                       + TruncDiv(max_ram_pipeline * (quarter % row), row)]

\* _calculate_chunk_rows: a positive integer in ENEM_CSV_CHUNK_ROWS is
\* returned as it is; otherwise (unset, empty, not an integer, zero or
\* negative) the budget of a quarter of max_ram_pipeline (262144 bytes per
\* MiB) is divided by max(ENEM_ESTIMATED_ROW_BYTES or 450, 200), truncated
\* and clamped to [150_000, 1_500_000].  int() of an
\* ENEM_ESTIMATED_ROW_BYTES that is not an integer raises ValueError.  The
\* quotient is computed in two parts to stay within 32-bit integers.
calculate_chunk_rows(max_ram_pipeline, env_chunk_rows, env_row_bytes) ==
    IF env_chunk_rows.kind = "number" /\ env_chunk_rows.value > 0
    THEN [raised |-> FALSE, value |-> env_chunk_rows.value]
    ELSE IF env_row_bytes.kind = "text"
    THEN [raised |-> TRUE, value |-> 0]
    ELSE LET estimated_row_bytes == IF env_row_bytes.kind = "unset" THEN 450
                                    ELSE env_row_bytes.value
             row == IF estimated_row_bytes > 200 THEN estimated_row_bytes
                    ELSE 200
             quarter == 262144
             \* int(x / y) for y > 0 truncates toward zero
             TruncDiv(x, y) == IF x >= 0 THEN x \div y ELSE -((-x) \div y)
             chunk_rows == max_ram_pipeline * (quarter \div row)
                           + TruncDiv(max_ram_pipeline * (quarter % row), row)
             capped == IF chunk_rows < MaxChunkRows THEN chunk_rows
                       ELSE MaxChunkRows
         IN [raised |-> FALSE,
             value |-> IF capped > MinChunkRows THEN capped ELSE MinChunkRows]

InitHardware ==
    /\ LET EnvValues(numbers) ==
               {[kind |-> "unset", value |-> 0], [kind |-> "text", value |-> 0]}
               \cup {[kind |-> "number", value |-> n] : n \in numbers}
       IN \E ram \in {2000, 8000, 20480, 64000},
             env_max_ram \in EnvValues({-1024, 1024, 4096, 32768}),
             env_chunk_rows \in EnvValues({-5, 0, 5, 200000, 2000000}),
             env_row_bytes \in EnvValues({-1, 100, 450, 10000}) :
          lastCall = [on |-> TRUE, ram |-> ram, env_max_ram |-> env_max_ram,
                      env_chunk_rows |-> env_chunk_rows,
                      env_row_bytes |-> env_row_bytes,
                      max_ram_gb_for_pipelines |-> 0,
                      csv_chunk_rows |-> 0, status |-> "importing"]
    /\ cleaned = {}
    /\ gaps = {}
    /\ gold = [f \in AllFiles |-> NoFile]
    /\ nextRun = 0
    /\ NoWorkflow
    /\ NoSubModels

\* build_profile_for_local: max_ram_pipelines, then csv_chunk_rows from it.
build_profile_for_local ==
    /\ lastCall.on
    /\ lastCall.status = "importing"
    /\ LET max_ram_pipelines == resolve_max_ram_pipeline(lastCall.ram,
                                                        lastCall.env_max_ram)
           chunk == calculate_chunk_rows(max_ram_pipelines,
                                         lastCall.env_chunk_rows,
                                         lastCall.env_row_bytes)
       IN lastCall' =
            IF chunk.raised
            THEN [lastCall EXCEPT !.max_ram_gb_for_pipelines = max_ram_pipelines,
                                  !.status = "raised"]
            ELSE [lastCall EXCEPT !.max_ram_gb_for_pipelines = max_ram_pipelines,
                                  !.csv_chunk_rows = chunk.value,
                                  !.status = "resolved"]
    /\ UNCHANGED <<wfVars, agg, cl, cs, th, sv, gt>>

SpecHardware == InitHardware /\ [][build_profile_for_local]_vars

\* C25 as stated: the resolved csv_chunk_rows lies in [150_000, 1_500_000]
\* whatever the host and the environment.
C25_ChunkRowsClamped ==
    (lastCall.on /\ lastCall.status = "resolved")
    => /\ lastCall.csv_chunk_rows >= MinChunkRows
       /\ lastCall.csv_chunk_rows <= MaxChunkRows

\* C25, amended: a positive integer in ENEM_CSV_CHUNK_ROWS is the resolved
\* csv_chunk_rows, unclamped; in every other environment the resolved value
\* lies in [150_000, 1_500_000].
C25_ChunkRowsClampedUnlessOverridden ==
    (lastCall.on /\ lastCall.status = "resolved")
    => IF /\ lastCall.env_chunk_rows.kind = "number"
          /\ lastCall.env_chunk_rows.value > 0
       THEN lastCall.csv_chunk_rows = lastCall.env_chunk_rows.value
       ELSE /\ lastCall.csv_chunk_rows >= MinChunkRows
            /\ lastCall.csv_chunk_rows <= MaxChunkRows

\* A profile resolved without a usable override on a host whose budget,
\* divided by the row estimate, falls below the lower limit.
C25_Witness ==
    /\ lastCall.on
    /\ lastCall.status = "resolved"
    /\ lastCall.env_chunk_rows.kind = "number"
    /\ lastCall.env_chunk_rows.value <= 0
    /\ lastCall.env_row_bytes.value = 10000
    /\ lastCall.ram = 2000
    /\ lastCall.csv_chunk_rows = MinChunkRows

====
